---- MODULE Spec2Model ----
(***************************************************************************)
(* Volcano status aggregation and caching layer.                           *)
(*                                                                         *)
(*   lib/gvp-eruptions.ts        fetchActiveEruptions, invalidateEruption- *)
(*                               Cache and the module-level eruptionCache  *)
(*   app/api/volcanoes (route)   GET, fetchVolcanoData, determineStatus,   *)
(*                               getFallbackVolcanoData, cachedData and    *)
(*                               the module-level activeEruptions          *)
(*   app/api/volcanoes/refresh   POST                                      *)
(*   app/api/volcanoes/status    GET                                       *)
(*                                                                         *)
(* Every request handler is an async function of one Node.js process.  A   *)
(* handler runs without interruption up to its next network await, so an   *)
(* action of this module is one such run: from the start of a request to   *)
(* the first fetch() it issues, or from the arrival of a response to the   *)
(* next fetch() or to the handler's return.                                *)
(*                                                                         *)
(* The page, in the browser:                                               *)
(*                                                                         *)
(*   components/PostHogProvider  analytics, initialised on consent         *)
(*   components/CookieConsent    the consent banner and getConsentStatus   *)
(*   hooks/useVolcanoes          loads the list from /api/volcanoes        *)
(*   hooks/useKeyboardShortcuts  the keydown listener of the window        *)
(*   app/page (HomeContent)      modals, selection, erupting navigation    *)
(*   components/SearchBar        the search modal                          *)
(*                                                                         *)
(* There an action is one event handler, effect or continuation of an      *)
(* await, with the effects React runs in the same commit.                  *)
(***************************************************************************)
EXTENDS Integers, Sequences, FiniteSets, TLC

(***************************************************************************)
(* Bounds of the model.                                                    *)
(***************************************************************************)
MaxFeedFeatures == 2     \* features of one eruption feed response
MaxCatalogFeatures == 1  \* features of one catalog response
MaxSnapshotFeatures == 3 \* features of the feed response given to
                         \* fetchActiveEruptions applied on its own
MaxBuildFeatures == 3    \* features of the catalog response given to the
                         \* list GET applied on its own
MaxClientRequests == 3   \* calls of fetchVolcanoes by one mounted hook

\* The request handlers that may be in flight together
Calls == {1, 2}

(***************************************************************************)
(* Program constants.                                                      *)
(***************************************************************************)
ERUPTION_CACHE_DURATION == 30 * 60 * 1000
CACHE_DURATION == 6 * 60 * 60 * 1000

WARNING_VOLCANO_IDS == {"263250", "341090", "342090", "263340"}

WATCH_VOLCANO_IDS ==
    {"352010", "212040", "357120", "282110", "311070", "264020", "263310"}

ADVISORY_VOLCANO_IDS ==
    {"264140", "383010", "223020", "221080", "264020", "273070", "211010",
     "311060", "241040"}

VolcanoStatus == {"normal", "advisory", "watch", "warning", "erupting"}

statusPriority(s) ==
    CASE s = "erupting" -> 0
      [] s = "warning"  -> 1
      [] s = "watch"    -> 2
      [] s = "advisory" -> 3
      [] s = "normal"   -> 4

(***************************************************************************)
(* The clock.  Date.now() is read from `clock`, in milliseconds; time      *)
(* moves forward to one of a few instants placed below, at and above the   *)
(* cache durations.                                                        *)
(***************************************************************************)
EruptionInstants ==
    {0,
     ERUPTION_CACHE_DURATION \div 2,
     ERUPTION_CACHE_DURATION,
     ERUPTION_CACHE_DURATION + ERUPTION_CACHE_DURATION \div 2,
     CACHE_DURATION}

CatalogInstants ==
    {0,
     CACHE_DURATION,
     CACHE_DURATION + ERUPTION_CACHE_DURATION}

(***************************************************************************)
(* Volcano names of the model and their collation order: localeCompare(a,  *)
(* b) is negative, zero or positive as a sorts before, with or after b.    *)
(***************************************************************************)
NameOrder ==
    <<"Etna", "Kilauea", "Merapi", "Sakurajima", "Semeru", "Stromboli">>

NameRank(n) == CHOOSE i \in 1..Len(NameOrder) : NameOrder[i] = n

localeCompare(a, b) == NameRank(a) - NameRank(b)

\* String(n) of a volcano number
String(n) == ToString(n)

(***************************************************************************)
(* Upstream responses.                                                     *)
(*                                                                         *)
(* A response is [kind, features]:                                         *)
(*   "network"          fetch() rejects                                    *)
(*   "status"           response.ok is false                               *)
(*   "json"             response.json() rejects                            *)
(*   "noFeatures"       the payload has no features field                  *)
(*   "featuresNotList"  the payload's features field is not a list         *)
(*   "ok"               the payload's features are the sequence `features` *)
(***************************************************************************)
FailureKinds ==
    {"network", "status", "json", "noFeatures", "featuresNotList"}

\* Volcano numbers, names and start dates carried by the feeds of the model
FeedNumbers == {300150}
CatalogNumbers == {300150, 263250}
\* (StartDate, ExplosivityIndexMax) of the eruption records of the model
FeedEruptions ==
    {[StartDate |-> "2021-09-29", ExplosivityIndexMax |-> 1],
     [StartDate |-> "2024-12-23", ExplosivityIndexMax |-> 2]}

VolcanoNameOf(n) ==
    CASE n = 300150 -> "Kilauea"
      [] n = 211060 -> "Etna"
      [] n = 282080 -> "Sakurajima"
      [] OTHER      -> "Merapi"

\* An eruption feature; hasProperties = FALSE is a feature without properties
NoPropertiesFeature ==
    [hasProperties |-> FALSE, VolcanoNumber |-> 0, VolcanoName |-> "",
     ContinuingEruption |-> "", StartDate |-> "", ExplosivityIndexMax |-> 0]

EruptionFeaturesOf(records) ==
    {[hasProperties |-> TRUE, VolcanoNumber |-> n,
      VolcanoName |-> VolcanoNameOf(n), ContinuingEruption |-> c,
      StartDate |-> e.StartDate,
      ExplosivityIndexMax |-> e.ExplosivityIndexMax] :
        n \in FeedNumbers, c \in {"True", "False"}, e \in records}
    \cup {NoPropertiesFeature}

SeqsUpTo(S, n) == UNION {[1..k -> S] : k \in 0..n}

\* The feed responses of the eruption service's specification
FeedResponses ==
    {[kind |-> k, features |-> <<>>] : k \in FailureKinds}
    \cup {[kind |-> "ok", features |-> fs] :
            fs \in SeqsUpTo(EruptionFeaturesOf(FeedEruptions),
                            MaxFeedFeatures)}

\* The feed responses of the catalog route's specification: at most one
\* feature, and two of the ways a request fails
BuildFeedResponses ==
    {[kind |-> k, features |-> <<>>] : k \in {"network", "status"}}
    \cup {[kind |-> "ok", features |-> fs] :
            fs \in SeqsUpTo(
                     EruptionFeaturesOf(
                       {[StartDate |-> "2021-09-29",
                         ExplosivityIndexMax |-> 1]}),
                     1)}

\* What a feed response is, seen from outside the program
FeedResponseKind(resp) ==
    IF resp.kind # "ok" THEN resp.kind
    ELSE IF \E i \in 1..Len(resp.features) : ~resp.features[i].hasProperties
         THEN "noProperties"
         ELSE "ok"

FeedFailures == FailureKinds \cup {"noProperties"}

\* "ok" or "failed": what the upstream did, seen from outside the program
FeedOutcomeOf(resp) ==
    IF FeedResponseKind(resp) \in FeedFailures THEN "failed" ELSE "ok"

CatalogOutcomeOf(resp) ==
    IF resp.kind \in FailureKinds THEN "failed" ELSE "ok"

(***************************************************************************)
(* lib/gvp-eruptions.ts                                                    *)
(***************************************************************************)
\* A Map<string, ActiveEruption> is the sequence of its entries in insertion
\* order, at most one per volcanoId.
MapHas(m, id) == \E i \in 1..Len(m) : m[i].volcanoId = id

MapIds(m) == {m[i].volcanoId : i \in 1..Len(m)}

\* eruptionCache: null, or {eruptions, timestamp}
NullEruptionCache == [isNull |-> TRUE, eruptions |-> <<>>, timestamp |-> 0]

\* Variant: the duration taken in seconds, not milliseconds
EruptionCacheFreshSeconds(cache, t) ==
    /\ ~cache.isNull
    /\ t - cache.timestamp < 30 * 60

\* `eruptionCache && now - eruptionCache.timestamp < ERUPTION_CACHE_DURATION`
EruptionCacheFresh(cache, t) ==
    /\ ~cache.isNull
    /\ t - cache.timestamp < ERUPTION_CACHE_DURATION

\* Variant: a later continuing record of a volcano replaces the entry of an
\* earlier one
RECURSIVE EruptionLoopLastWins(_, _, _)
EruptionLoopLastWins(features, i, map) ==
    IF i > Len(features) THEN [threw |-> FALSE, map |-> map]
    ELSE LET feature == features[i] IN
         IF ~feature.hasProperties
         THEN [threw |-> TRUE, map |-> map]
         ELSE IF feature.ContinuingEruption = "True"
              THEN LET volcanoId == String(feature.VolcanoNumber)
                       entry == [volcanoId |-> volcanoId,
                                 volcanoName |-> feature.VolcanoName,
                                 startDate |-> feature.StartDate,
                                 vei |-> feature.ExplosivityIndexMax]
                   IN
                   IF ~MapHas(map, volcanoId)
                   THEN EruptionLoopLastWins(features, i + 1,
                                             Append(map, entry))
                   ELSE EruptionLoopLastWins(features, i + 1,
                            [j \in 1..Len(map) |->
                                IF map[j].volcanoId = volcanoId
                                THEN entry ELSE map[j]])
              ELSE EruptionLoopLastWins(features, i + 1, map)

\* The for loop over data.features: [threw, map] after features i..Len
RECURSIVE EruptionLoop(_, _, _)
EruptionLoop(features, i, map) ==
    IF i > Len(features) THEN [threw |-> FALSE, map |-> map]
    ELSE LET feature == features[i] IN
         IF ~feature.hasProperties
         THEN [threw |-> TRUE, map |-> map]
         ELSE IF feature.ContinuingEruption = "True"
              THEN LET volcanoId == String(feature.VolcanoNumber) IN
                   IF ~MapHas(map, volcanoId)
                   THEN EruptionLoop(features, i + 1,
                            Append(map,
                                [volcanoId |-> volcanoId,
                                 volcanoName |-> feature.VolcanoName,
                                 startDate |-> feature.StartDate,
                                 vei |-> feature.ExplosivityIndexMax]))
                   ELSE EruptionLoop(features, i + 1, map)
              ELSE EruptionLoop(features, i + 1, map)

\* The try block from the response on: [threw, map]
EruptionTry(resp) ==
    IF resp.kind # "ok" THEN [threw |-> TRUE, map |-> <<>>]
    ELSE EruptionLoop(resp.features, 1, <<>>)

\* Variant: the catch block always returns a new Map
EruptionCatchNoStale(cache) == <<>>

\* The catch block: the cached map if there is a cache entry, else a new Map
EruptionCatch(cache) ==
    IF ~cache.isNull THEN cache.eruptions ELSE <<>>

\* Variant: the catch block stores what it returns as a new cache entry
EruptionResumeStoresFailure(cache, t, resp) ==
    LET r == EruptionTry(resp) IN
    IF ~r.threw
    THEN [cache |-> [isNull |-> FALSE, eruptions |-> r.map, timestamp |-> t],
          ret |-> r.map, raised |-> FALSE]
    ELSE [cache |-> [isNull |-> FALSE, eruptions |-> EruptionCatch(cache),
                     timestamp |-> t],
          ret |-> EruptionCatch(cache), raised |-> FALSE]

\* Variant: the entries of the response are added to the cached map
EruptionResumeMerges(cache, t, resp) ==
    LET r == IF resp.kind # "ok" THEN [threw |-> TRUE, map |-> <<>>]
             ELSE EruptionLoop(resp.features, 1, cache.eruptions)
    IN
    IF ~r.threw
    THEN [cache |-> [isNull |-> FALSE, eruptions |-> r.map, timestamp |-> t],
          ret |-> r.map, raised |-> FALSE]
    ELSE [cache |-> cache, ret |-> EruptionCatch(cache), raised |-> FALSE]

\* Variant: an entry stored by a call that started later is kept
EruptionResumeKeepsNewer(cache, t, resp) ==
    LET r == EruptionTry(resp) IN
    IF ~r.threw
    THEN [cache |-> IF ~cache.isNull /\ cache.timestamp > t
                    THEN cache
                    ELSE [isNull |-> FALSE, eruptions |-> r.map,
                          timestamp |-> t],
          ret |-> r.map, raised |-> FALSE]
    ELSE [cache |-> cache, ret |-> EruptionCatch(cache), raised |-> FALSE]

\* fetchActiveEruptions from the response on, entered with `now = t` and the
\* cache as it is when the response arrives: the new cache, the map returned
\* and whether an exception leaves the function.
EruptionResume(cache, t, resp) ==
    LET r == EruptionTry(resp) IN
    IF ~r.threw
    THEN [cache |-> [isNull |-> FALSE, eruptions |-> r.map, timestamp |-> t],
          ret |-> r.map, raised |-> FALSE]
    ELSE [cache |-> cache, ret |-> EruptionCatch(cache), raised |-> FALSE]

(***************************************************************************)
(* app/api/volcanoes/status                                                *)
(***************************************************************************)
\* The body before a response is sent
NoStatusBody == [eruptingCount |-> 0, eruptingVolcanoes |-> <<>>]

\* Variant: the id of a listed entry is taken from the name field
StatusBodyIdFromName(m) ==
    [eruptingCount |-> Len(m),
     eruptingVolcanoes |->
        [i \in 1..Len(m) |->
            [id |-> m[i].volcanoName, name |-> m[i].volcanoName,
             startDate |-> m[i].startDate]]]

\* The body of the status GET: eruptions.size and Array.from(
\* eruptions.values()).map(e => ({id, name, startDate}))
StatusBody(m) ==
    [eruptingCount |-> Len(m),
     eruptingVolcanoes |->
        [i \in 1..Len(m) |->
            [id |-> m[i].volcanoId, name |-> m[i].volcanoName,
             startDate |-> m[i].startDate]]]

(***************************************************************************)
(* State.                                                                  *)
(***************************************************************************)
VARIABLES
    clock,            \* Date.now()
    eruptionCache,    \* gvp-eruptions.ts: let eruptionCache
    cachedData,       \* catalog route: let cachedData
    activeEruptions,  \* catalog route: let activeEruptions
    route,            \* per call: "none", "status" (status GET), "list" (list GET)
    pc,               \* per call: "idle", "awaitFeed", "awaitCatalog", "done"
    now,              \* per call: the handler's `now`
    eruptions,        \* per call: the map fetchActiveEruptions returned to it
    volcanoes,        \* per call: the list in the list GET's response
    httpStatus,       \* per call: status of the response, 0 before it is sent
    feedRequests,     \* per call: requests it sent to the eruption feed
    catalogRequests,  \* per call: requests it sent to the catalog
    feedOutcome,      \* per call: "none", "hit" (served by the cache), or
                      \*   "ok" / "failed": the feed response it received
    catalogOutcome,   \* per call: "none", "hit" (served by the cache), or
                      \*   "ok" / "failed": the catalog response it received
    invalidated,      \* POST ran and no fetchActiveEruptions started since
    statusBody,       \* per call: the JSON body of the status GET's response
    argVolcanoId,     \* determineStatus: its argument
    retStatus,        \* determineStatus: its result, "none" before the call
    argFeed,          \* fetchActiveEruptions: the feed response it receives
    retFeed,          \* fetchActiveEruptions: [done, cache, ret], the cache
                      \*   it leaves and the map it returns
    argCatalog,       \* list GET: the catalog response it receives
    retCatalog,       \* list GET: [done, cache, volcanoes, status], the
                      \*   cache it leaves and its response
    localStorage,     \* browser: the item "volcanic-cookie-consent"
    posthogKey,       \* whether NEXT_PUBLIC_POSTHOG_KEY is configured
    providerMounted,  \* PostHogProvider is mounted and its effects have run
    initializedRef,   \* PostHogProvider: initializedRef.current
    posthog,          \* posthog-js: "idle", "initialised" or "loaded"
    showBanner,       \* CookieConsent: showBanner
    bannerTimer,      \* CookieConsent: the 1500 ms timer is pending
    grantedBefore,    \* history: the stored consent has been "granted"
    lastChoice,       \* history: the button of the banner pressed since the
                      \*   page was loaded: "none", "accept" or "decline"
    hookMounted,      \* useVolcanoes is mounted and its effect has run
    clientVolcanoes,  \* useVolcanoes: volcanoes
    isLoading,        \* useVolcanoes: isLoading
    error,            \* useVolcanoes: error, "null" when there is none
    lastUpdated,      \* useVolcanoes: lastUpdated, "null" before a success
    started,          \* useVolcanoes: calls of fetchVolcanoes so far
    inFlight,         \* useVolcanoes: the calls awaiting their response
    isSearchOpen,     \* HomeContent: isSearchOpen
    isHelpOpen,       \* HomeContent: isHelpOpen
    isInfoOpen,       \* HomeContent: isInfoOpen
    isLocating,       \* HomeContent: isLocating
    selectedVolcano,  \* HomeContent: selectedVolcano, an id or "null"
    eruptingIndex,    \* HomeContent: eruptingIndex
    keyEvent,         \* the last keydown the window listener handled and
                      \*   what the listener did with it
    query,            \* SearchBar: query
    results,          \* SearchBar: results
    selectedIndex     \* SearchBar: selectedIndex

\* The arguments and results of the functions applied on their own
pureVars ==
    <<argVolcanoId, retStatus, argFeed, retFeed, argCatalog, retCatalog>>

\* State of the server process
serverVars ==
    <<clock, eruptionCache, cachedData, activeEruptions, route, pc, now,
      eruptions, volcanoes, httpStatus, feedRequests, catalogRequests,
      feedOutcome, catalogOutcome, invalidated, statusBody>>

\* State of the components of the page, in the browser
consentVars ==
    <<localStorage, posthogKey, providerMounted, initializedRef, posthog,
      showBanner, bannerTimer, grantedBefore, lastChoice>>

hookVars ==
    <<hookMounted, clientVolcanoes, isLoading, error, lastUpdated, started,
      inFlight>>

pageVars ==
    <<isSearchOpen, isHelpOpen, isInfoOpen, isLocating, selectedVolcano,
      eruptingIndex, keyEvent>>

searchVars == <<query, results, selectedIndex>>

clientVars == <<consentVars, hookVars, pageVars, searchVars>>

\* The tabs of one browser showing the page: each has its own components
\* and its own posthog-js, all share localStorage
Tabs == {1, 2}

\* No keydown has reached the window listener
NoKeyEvent ==
    [key |-> "none", target |-> "none", searchOpen |-> FALSE,
     helpOpen |-> FALSE, called |-> "none", preventDefault |-> FALSE]

\* The components before they are mounted: the initial values of their
\* useState and useRef calls
InitConsent ==
    /\ providerMounted = [t \in Tabs |-> FALSE]
    /\ initializedRef = [t \in Tabs |-> FALSE]
    /\ posthog = [t \in Tabs |-> "idle"]
    /\ showBanner = [t \in Tabs |-> FALSE]
    /\ bannerTimer = [t \in Tabs |-> FALSE]
    /\ lastChoice = [t \in Tabs |-> "none"]

InitHook ==
    /\ hookMounted = FALSE
    /\ clientVolcanoes = <<>>
    /\ isLoading = TRUE
    /\ error = "null"
    /\ lastUpdated = "null"
    /\ started = 0
    /\ inFlight = {}

InitPage ==
    /\ isSearchOpen = FALSE
    /\ isHelpOpen = FALSE
    /\ isInfoOpen = FALSE
    /\ isLocating = FALSE
    /\ selectedVolcano = "null"
    /\ eruptingIndex = 0
    /\ keyEvent = NoKeyEvent

InitSearch ==
    /\ query = <<>>
    /\ results = <<>>
    /\ selectedIndex = 0

\* The page is not open
InitClient ==
    /\ localStorage = "none"
    /\ posthogKey = FALSE
    /\ grantedBefore = FALSE
    /\ InitConsent
    /\ InitHook
    /\ InitPage
    /\ InitSearch

vars ==
    <<clock, eruptionCache, cachedData, activeEruptions, route, pc, now,
      eruptions, volcanoes, httpStatus, feedRequests, catalogRequests,
      feedOutcome, catalogOutcome, invalidated, statusBody, argVolcanoId,
      retStatus, argFeed, retFeed, argCatalog, retCatalog, clientVars>>

(***************************************************************************)
(* app/api/volcanoes: the catalog route                                    *)
(***************************************************************************)
\* A catalog feature.  geometry is "Point", "noCoordinates" (a geometry
\* without coordinates) or "none"; hasProperties = FALSE is a feature without
\* properties; Volcano_Name = "" is a missing or empty name.
CatalogFeatures ==
    {[geometry |-> "Point", hasProperties |-> TRUE, Volcano_Number |-> n,
      Volcano_Name |-> VolcanoNameOf(n)] : n \in CatalogNumbers}
    \cup {[geometry |-> g, hasProperties |-> TRUE, Volcano_Number |-> 263250,
           Volcano_Name |-> "Merapi"] : g \in {"noCoordinates", "none"}}
    \cup {[geometry |-> "Point", hasProperties |-> FALSE, Volcano_Number |-> 0,
           Volcano_Name |-> ""],
          [geometry |-> "Point", hasProperties |-> TRUE,
           Volcano_Number |-> 263250, Volcano_Name |-> ""]}

\* The catalog features of the catalog route's specification: the two
\* well-formed ones, one without geometry and one without a name
BuildCatalogFeatures ==
    {f \in CatalogFeatures :
        /\ f.hasProperties
        /\ f.geometry # "noCoordinates"
        /\ f.geometry = "none" => f.Volcano_Name # ""}

CatalogResponses ==
    {[kind |-> k, features |-> <<>>] : k \in FailureKinds}
    \cup {[kind |-> "ok", features |-> fs] :
            fs \in SeqsUpTo(BuildCatalogFeatures, MaxCatalogFeatures)}

\* cachedData: null, or {volcanoes, timestamp}
NullCachedData == [isNull |-> TRUE, volcanoes |-> <<>>, timestamp |-> 0]

\* Variant: the duration taken in seconds, not milliseconds
CachedDataFreshSeconds(cache, t) ==
    /\ ~cache.isNull
    /\ t - cache.timestamp < 6 * 60 * 60

\* Variant: an entry whose age equals the duration is still served
CachedDataFreshInclusive(cache, t) ==
    /\ ~cache.isNull
    /\ t - cache.timestamp <= CACHE_DURATION

\* `cachedData && now - cachedData.timestamp < CACHE_DURATION`
CachedDataFresh(cache, t) ==
    /\ ~cache.isNull
    /\ t - cache.timestamp < CACHE_DURATION

\* Variant: the advisory list is consulted before the watch list
determineStatusAdvisoryFirst(volcanoId) ==
    IF MapHas(activeEruptions, volcanoId) THEN "erupting"
    ELSE IF volcanoId \in WARNING_VOLCANO_IDS THEN "warning"
    ELSE IF volcanoId \in ADVISORY_VOLCANO_IDS THEN "advisory"
    ELSE IF volcanoId \in WATCH_VOLCANO_IDS THEN "watch"
    ELSE "normal"

\* determineStatus reads the module-level activeEruptions
determineStatus(volcanoId) ==
    IF MapHas(activeEruptions, volcanoId) THEN "erupting"
    ELSE IF volcanoId \in WARNING_VOLCANO_IDS THEN "warning"
    ELSE IF volcanoId \in WATCH_VOLCANO_IDS THEN "watch"
    ELSE IF volcanoId \in ADVISORY_VOLCANO_IDS THEN "advisory"
    ELSE "normal"

\* parseGeoJSONFeature: the fields of a Volcano that the layer reads
parseGeoJSONFeature(feature) ==
    LET volcanoId == String(feature.Volcano_Number) IN
    [id |-> volcanoId,
     name |-> feature.Volcano_Name,
     status |-> determineStatus(volcanoId)]

\* parseGeoJSONFeature reads feature.properties and
\* feature.geometry.coordinates[0..1]: a TypeError without them
ParseThrows(feature) ==
    \/ ~feature.hasProperties
    \/ feature.geometry # "Point"

\* Variant: the filter does not look at the geometry
WellFormedIgnoresGeometry(f) ==
    /\ f.hasProperties
    /\ f.Volcano_Name # ""

\* The filter predicate of fetchVolcanoData
WellFormed(f) ==
    /\ f.geometry # "none"
    /\ f.geometry # "noCoordinates"
    /\ f.hasProperties
    /\ f.Volcano_Name # ""

RECURSIVE FilterMap(_)
FilterMap(features) ==
    IF features = <<>> THEN <<>>
    ELSE LET rest == FilterMap(Tail(features)) IN
         IF WellFormed(Head(features))
         THEN <<parseGeoJSONFeature(Head(features))>> \o rest
         ELSE rest

\* Variant: the comparator orders by name first, then by status priority
CompareNameFirst(a, b) ==
    LET nameDiff == localeCompare(a.name, b.name) IN
    IF nameDiff # 0 THEN nameDiff
    ELSE statusPriority(a.status) - statusPriority(b.status)

\* The comparator of volcanoes.sort
Compare(a, b) ==
    LET priorityDiff == statusPriority(a.status) - statusPriority(b.status) IN
    IF priorityDiff # 0 THEN priorityDiff
    ELSE localeCompare(a.name, b.name)

\* Array.prototype.sort is stable: insertion after the last element that
\* does not compare greater
RECURSIVE InsertSorted(_, _)
InsertSorted(sorted, v) ==
    IF sorted = <<>> THEN <<v>>
    ELSE IF Compare(Head(sorted), v) <= 0
         THEN <<Head(sorted)>> \o InsertSorted(Tail(sorted), v)
         ELSE <<v>> \o sorted

RECURSIVE SortVolcanoes(_)
SortVolcanoes(vs) ==
    IF vs = <<>> THEN <<>>
    ELSE InsertSorted(SortVolcanoes(SubSeq(vs, 1, Len(vs) - 1)), vs[Len(vs)])

getFallbackVolcanoData ==
    <<[id |-> "300150", name |-> "Kilauea", status |-> "erupting"],
      [id |-> "211040", name |-> "Stromboli", status |-> "erupting"],
      [id |-> "211060", name |-> "Etna", status |-> "erupting"],
      [id |-> "282080", name |-> "Sakurajima", status |-> "erupting"],
      [id |-> "263300", name |-> "Semeru", status |-> "erupting"]>>

\* The try block of fetchVolcanoData from the catalog response on
VolcanoTry(resp) ==
    IF resp.kind # "ok" THEN [threw |-> TRUE, volcanoes |-> <<>>]
    ELSE IF \E i \in 1..Len(resp.features) :
               WellFormed(resp.features[i]) /\ ParseThrows(resp.features[i])
         THEN [threw |-> TRUE, volcanoes |-> <<>>]
         ELSE [threw |-> FALSE,
               volcanoes |-> SortVolcanoes(FilterMap(resp.features))]

\* Variant: the catch block prefers the cached list to the fallback
VolcanoResumeStale(resp) ==
    LET r == VolcanoTry(resp) IN
    IF ~r.threw THEN [ret |-> r.volcanoes, raised |-> FALSE]
    ELSE IF ~cachedData.isNull
         THEN [ret |-> cachedData.volcanoes, raised |-> FALSE]
         ELSE [ret |-> getFallbackVolcanoData, raised |-> FALSE]

\* Variant: the catch block of fetchVolcanoData lets the failure out
VolcanoResumeRethrows(resp) ==
    LET r == VolcanoTry(resp) IN
    IF ~r.threw THEN [ret |-> r.volcanoes, raised |-> FALSE]
    ELSE [ret |-> <<>>, raised |-> TRUE]

\* fetchVolcanoData from the catalog response on: the list it returns and
\* whether an exception leaves the function
VolcanoResume(resp) ==
    LET r == VolcanoTry(resp) IN
    IF ~r.threw THEN [ret |-> r.volcanoes, raised |-> FALSE]
    ELSE [ret |-> getFallbackVolcanoData, raised |-> FALSE]

\* GET from the return of fetchVolcanoData on, entered with `now = t`: the
\* new cachedData and the response
GetResume(cache, t, r) ==
    IF ~r.raised
    THEN [cache |-> [isNull |-> FALSE, volcanoes |-> r.ret, timestamp |-> t],
          volcanoes |-> r.ret, status |-> 200]
    ELSE [cache |-> cache, volcanoes |-> getFallbackVolcanoData,
          status |-> 500]

\* No argument, no result: the state of a function that is not applied
NoResponse == [kind |-> "none", features |-> <<>>]
NoFeedResult ==
    [done |-> FALSE, cache |-> NullEruptionCache, ret |-> <<>>]
NoCatalogResult ==
    [done |-> FALSE, cache |-> NullCachedData, volcanoes |-> <<>>,
     status |-> 0]

(***************************************************************************)
(* Initial state: both caches empty, no request in progress.               *)
(***************************************************************************)
\* The server process has handled no request
InitServer ==
    /\ clock = 0
    /\ eruptionCache = NullEruptionCache
    /\ cachedData = NullCachedData
    /\ activeEruptions = <<>>
    /\ route = [p \in Calls |-> "none"]
    /\ pc = [p \in Calls |-> "idle"]
    /\ now = [p \in Calls |-> 0]
    /\ eruptions = [p \in Calls |-> <<>>]
    /\ volcanoes = [p \in Calls |-> <<>>]
    /\ httpStatus = [p \in Calls |-> 0]
    /\ feedRequests = [p \in Calls |-> 0]
    /\ catalogRequests = [p \in Calls |-> 0]
    /\ feedOutcome = [p \in Calls |-> "none"]
    /\ catalogOutcome = [p \in Calls |-> "none"]
    /\ invalidated = FALSE
    /\ statusBody = [p \in Calls |-> NoStatusBody]
    /\ argVolcanoId = ""
    /\ retStatus = "none"
    /\ argFeed = NoResponse
    /\ retFeed = NoFeedResult
    /\ argCatalog = NoResponse
    /\ retCatalog = NoCatalogResult

Init ==
    /\ clock = 0
    /\ eruptionCache = NullEruptionCache
    /\ cachedData = NullCachedData
    /\ activeEruptions = <<>>
    /\ route = [p \in Calls |-> "none"]
    /\ pc = [p \in Calls |-> "idle"]
    /\ now = [p \in Calls |-> 0]
    /\ eruptions = [p \in Calls |-> <<>>]
    /\ volcanoes = [p \in Calls |-> <<>>]
    /\ httpStatus = [p \in Calls |-> 0]
    /\ feedRequests = [p \in Calls |-> 0]
    /\ catalogRequests = [p \in Calls |-> 0]
    /\ feedOutcome = [p \in Calls |-> "none"]
    /\ catalogOutcome = [p \in Calls |-> "none"]
    /\ invalidated = FALSE
    /\ statusBody = [p \in Calls |-> NoStatusBody]
    /\ argVolcanoId = ""
    /\ retStatus = "none"
    /\ argFeed = NoResponse
    /\ retFeed = NoFeedResult
    /\ argCatalog = NoResponse
    /\ retCatalog = NoCatalogResult
    /\ InitClient

(***************************************************************************)
(* Status GET: from the request to the cached map or to the feed request.  *)
(***************************************************************************)
StartStatus(p) ==
    /\ pc[p] = "idle"
    /\ route' = [route EXCEPT ![p] = "status"]
    /\ now' = [now EXCEPT ![p] = clock]
    /\ invalidated' = FALSE
    /\ IF EruptionCacheFresh(eruptionCache, clock)
       THEN /\ eruptions' = [eruptions EXCEPT ![p] = eruptionCache.eruptions]
            /\ statusBody' =
                  [statusBody EXCEPT ![p] = StatusBody(eruptionCache.eruptions)]
            /\ httpStatus' = [httpStatus EXCEPT ![p] = 200]
            /\ feedOutcome' = [feedOutcome EXCEPT ![p] = "hit"]
            /\ pc' = [pc EXCEPT ![p] = "done"]
            /\ UNCHANGED feedRequests
       ELSE /\ feedRequests' = [feedRequests EXCEPT ![p] = @ + 1]
            /\ pc' = [pc EXCEPT ![p] = "awaitFeed"]
            /\ UNCHANGED <<eruptions, statusBody, httpStatus, feedOutcome>>
    /\ UNCHANGED <<clock, eruptionCache, cachedData, activeEruptions,
                   volcanoes, catalogRequests, catalogOutcome>>
    /\ UNCHANGED pureVars
    /\ UNCHANGED clientVars

(***************************************************************************)
(* List GET: from the request to the cached list, or through               *)
(* fetchVolcanoData into fetchActiveEruptions, to the feed request or,     *)
(* when the eruption cache is fresh, to the catalog request.               *)
(***************************************************************************)
StartList(p) ==
    /\ pc[p] = "idle"
    /\ route' = [route EXCEPT ![p] = "list"]
    /\ now' = [now EXCEPT ![p] = clock]
    /\ IF CachedDataFresh(cachedData, clock)
       THEN /\ volcanoes' = [volcanoes EXCEPT ![p] = cachedData.volcanoes]
            /\ httpStatus' = [httpStatus EXCEPT ![p] = 200]
            /\ catalogOutcome' = [catalogOutcome EXCEPT ![p] = "hit"]
            /\ pc' = [pc EXCEPT ![p] = "done"]
            /\ UNCHANGED <<activeEruptions, eruptions, feedRequests,
                           catalogRequests, feedOutcome, invalidated>>
       ELSE /\ invalidated' = FALSE
            /\ IF EruptionCacheFresh(eruptionCache, clock)
               THEN /\ eruptions' =
                          [eruptions EXCEPT ![p] = eruptionCache.eruptions]
                    /\ activeEruptions' = eruptionCache.eruptions
                    /\ feedOutcome' = [feedOutcome EXCEPT ![p] = "hit"]
                    /\ catalogRequests' =
                          [catalogRequests EXCEPT ![p] = @ + 1]
                    /\ pc' = [pc EXCEPT ![p] = "awaitCatalog"]
                    /\ UNCHANGED feedRequests
               ELSE /\ feedRequests' = [feedRequests EXCEPT ![p] = @ + 1]
                    /\ pc' = [pc EXCEPT ![p] = "awaitFeed"]
                    /\ UNCHANGED <<activeEruptions, eruptions, feedOutcome,
                                   catalogRequests>>
            /\ UNCHANGED <<volcanoes, httpStatus, catalogOutcome>>
    /\ UNCHANGED <<clock, eruptionCache, cachedData, statusBody>>
    /\ UNCHANGED pureVars
    /\ UNCHANGED clientVars

(***************************************************************************)
(* The eruption feed answers call p: fetchActiveEruptions runs to its      *)
(* return; the status GET responds, the list GET goes on to the catalog    *)
(* request.                                                                *)
(***************************************************************************)
FeedResponse(p, resp) ==
    /\ pc[p] = "awaitFeed"
    /\ LET r == EruptionResume(eruptionCache, now[p], resp) IN
       /\ eruptionCache' = r.cache
       /\ feedOutcome' = [feedOutcome EXCEPT ![p] = FeedOutcomeOf(resp)]
       /\ IF route[p] = "status"
          THEN /\ eruptions' = [eruptions EXCEPT ![p] = r.ret]
               /\ statusBody' =
                     [statusBody EXCEPT
                        ![p] = IF r.raised THEN NoStatusBody
                               ELSE StatusBody(r.ret)]
               /\ httpStatus' =
                     [httpStatus EXCEPT ![p] = IF r.raised THEN 500 ELSE 200]
               /\ pc' = [pc EXCEPT ![p] = "done"]
               /\ UNCHANGED <<cachedData, activeEruptions, volcanoes,
                              catalogRequests>>
          ELSE IF r.raised
               THEN LET g == GetResume(cachedData, now[p],
                                 [ret |-> getFallbackVolcanoData,
                                  raised |-> FALSE]) IN
                    /\ cachedData' = g.cache
                    /\ volcanoes' = [volcanoes EXCEPT ![p] = g.volcanoes]
                    /\ httpStatus' = [httpStatus EXCEPT ![p] = g.status]
                    /\ pc' = [pc EXCEPT ![p] = "done"]
                    /\ UNCHANGED <<activeEruptions, eruptions,
                                   catalogRequests, statusBody>>
               ELSE /\ eruptions' = [eruptions EXCEPT ![p] = r.ret]
                    /\ activeEruptions' = r.ret
                    /\ catalogRequests' =
                          [catalogRequests EXCEPT ![p] = @ + 1]
                    /\ pc' = [pc EXCEPT ![p] = "awaitCatalog"]
                    /\ UNCHANGED <<cachedData, volcanoes, httpStatus,
                                   statusBody>>
    /\ UNCHANGED <<clock, route, now, feedRequests, catalogOutcome,
                   invalidated>>
    /\ UNCHANGED pureVars
    /\ UNCHANGED clientVars

(***************************************************************************)
(* The catalog answers call p: fetchVolcanoData runs to its return and GET *)
(* stores the list and responds.                                           *)
(***************************************************************************)
CatalogResponse(p, resp) ==
    /\ pc[p] = "awaitCatalog"
    /\ LET g == GetResume(cachedData, now[p], VolcanoResume(resp)) IN
       /\ cachedData' = g.cache
       /\ volcanoes' = [volcanoes EXCEPT ![p] = g.volcanoes]
       /\ httpStatus' = [httpStatus EXCEPT ![p] = g.status]
    /\ catalogOutcome' = [catalogOutcome EXCEPT ![p] = CatalogOutcomeOf(resp)]
    /\ pc' = [pc EXCEPT ![p] = "done"]
    /\ UNCHANGED <<clock, eruptionCache, activeEruptions, route, now,
                   eruptions, feedRequests, catalogRequests, feedOutcome,
                   invalidated, statusBody>>
    /\ UNCHANGED pureVars
    /\ UNCHANGED clientVars

\* The response of call p has been sent; the slot serves the next request
Return(p) ==
    /\ pc[p] = "done"
    /\ pc' = [pc EXCEPT ![p] = "idle"]
    /\ route' = [route EXCEPT ![p] = "none"]
    /\ now' = [now EXCEPT ![p] = 0]
    /\ eruptions' = [eruptions EXCEPT ![p] = <<>>]
    /\ volcanoes' = [volcanoes EXCEPT ![p] = <<>>]
    /\ httpStatus' = [httpStatus EXCEPT ![p] = 0]
    /\ feedRequests' = [feedRequests EXCEPT ![p] = 0]
    /\ catalogRequests' = [catalogRequests EXCEPT ![p] = 0]
    /\ feedOutcome' = [feedOutcome EXCEPT ![p] = "none"]
    /\ catalogOutcome' = [catalogOutcome EXCEPT ![p] = "none"]
    /\ statusBody' = [statusBody EXCEPT ![p] = NoStatusBody]
    /\ UNCHANGED <<clock, eruptionCache, cachedData, activeEruptions,
                   invalidated>>
    /\ UNCHANGED pureVars
    /\ UNCHANGED clientVars

\* Variant: the refresh POST empties the catalog cache too
invalidateBothCaches ==
    /\ eruptionCache' = NullEruptionCache
    /\ cachedData' = NullCachedData
    /\ invalidated' = TRUE
    /\ UNCHANGED <<clock, activeEruptions, route, pc, now, eruptions,
                   volcanoes, httpStatus, feedRequests, catalogRequests,
                   feedOutcome, catalogOutcome, statusBody>>
    /\ UNCHANGED pureVars
    /\ UNCHANGED clientVars

\* invalidateEruptionCache, called by the refresh POST
invalidateEruptionCache ==
    /\ eruptionCache' = NullEruptionCache
    /\ invalidated' = TRUE
    /\ UNCHANGED <<clock, cachedData, activeEruptions, route, pc, now,
                   eruptions, volcanoes, httpStatus, feedRequests,
                   catalogRequests, feedOutcome, catalogOutcome, statusBody>>
    /\ UNCHANGED pureVars
    /\ UNCHANGED clientVars

\* Time passes
Advance(t) ==
    /\ t > clock
    /\ clock' = t
    /\ UNCHANGED <<eruptionCache, cachedData, activeEruptions, route, pc,
                   now, eruptions, volcanoes, httpStatus, feedRequests,
                   catalogRequests, feedOutcome, catalogOutcome, invalidated,
                   statusBody>>
    /\ UNCHANGED pureVars
    /\ UNCHANGED clientVars

(***************************************************************************)
(* The catalog route: list GETs and refresh POSTs.                         *)
(***************************************************************************)
Next ==
    \/ \E p \in Calls : StartList(p)
    \/ \E p \in Calls : \E resp \in BuildFeedResponses : FeedResponse(p, resp)
    \/ \E p \in Calls : \E resp \in CatalogResponses : CatalogResponse(p, resp)
    \/ \E p \in Calls : Return(p)
    \/ invalidateEruptionCache
    \/ \E t \in CatalogInstants : Advance(t)

Spec == Init /\ [][Next]_vars

(***************************************************************************)
(* The eruption service: status GETs and refresh POSTs.                    *)
(***************************************************************************)
NextEruptions ==
    \/ \E p \in Calls : StartStatus(p)
    \/ \E p \in Calls : \E resp \in FeedResponses : FeedResponse(p, resp)
    \/ \E p \in Calls : Return(p)
    \/ invalidateEruptionCache
    \/ \E t \in EruptionInstants : Advance(t)

SpecEruptions == Init /\ [][NextEruptions]_vars

(***************************************************************************)
(* determineStatus applied on its own: to every id of the watchlists and   *)
(* two ids of none, under every eruption map over four of them.            *)
(***************************************************************************)
StatusIds ==
    WARNING_VOLCANO_IDS \cup WATCH_VOLCANO_IDS \cup ADVISORY_VOLCANO_IDS
    \cup {"300150", "211040"}

\* In the warning list, in the watch and advisory lists, in the advisory
\* list, in no list
SnapshotIds == <<"263250", "264020", "264140", "300150">>

RECURSIVE SnapshotOf(_, _)
SnapshotOf(ids, i) ==
    IF i > Len(SnapshotIds) THEN <<>>
    ELSE IF SnapshotIds[i] \in ids
         THEN <<[volcanoId |-> SnapshotIds[i], volcanoName |-> "",
                 startDate |-> "2021-09-29", vei |-> 1]>>
              \o SnapshotOf(ids, i + 1)
         ELSE SnapshotOf(ids, i + 1)

StatusSnapshots ==
    {SnapshotOf(ids, 1) :
        ids \in SUBSET {SnapshotIds[i] : i \in 1..Len(SnapshotIds)}}

InitStatus ==
    /\ clock = 0
    /\ eruptionCache = NullEruptionCache
    /\ cachedData = NullCachedData
    /\ activeEruptions \in StatusSnapshots
    /\ route = [p \in Calls |-> "none"]
    /\ pc = [p \in Calls |-> "idle"]
    /\ now = [p \in Calls |-> 0]
    /\ eruptions = [p \in Calls |-> <<>>]
    /\ volcanoes = [p \in Calls |-> <<>>]
    /\ httpStatus = [p \in Calls |-> 0]
    /\ feedRequests = [p \in Calls |-> 0]
    /\ catalogRequests = [p \in Calls |-> 0]
    /\ feedOutcome = [p \in Calls |-> "none"]
    /\ catalogOutcome = [p \in Calls |-> "none"]
    /\ invalidated = FALSE
    /\ statusBody = [p \in Calls |-> NoStatusBody]
    /\ argVolcanoId \in StatusIds
    /\ retStatus = "none"
    /\ argFeed = NoResponse
    /\ retFeed = NoFeedResult
    /\ argCatalog = NoResponse
    /\ retCatalog = NoCatalogResult
    /\ InitClient

ApplyDetermineStatus ==
    /\ retStatus = "none"
    /\ retStatus' = determineStatus(argVolcanoId)
    /\ UNCHANGED <<clock, eruptionCache, cachedData, activeEruptions, route,
                   pc, now, eruptions, volcanoes, httpStatus, feedRequests,
                   catalogRequests, feedOutcome, catalogOutcome, invalidated,
                   statusBody, argVolcanoId, argFeed, retFeed, argCatalog,
                   retCatalog>>
    /\ UNCHANGED clientVars

NextStatus == ApplyDetermineStatus

SpecStatus == InitStatus /\ [][NextStatus]_vars

(***************************************************************************)
(* fetchActiveEruptions applied on its own: to every feed response of up   *)
(* to MaxSnapshotFeatures features over two volcano numbers, with no cache *)
(* entry or with an expired one.                                           *)
(***************************************************************************)
SnapshotNumbers == {300150, 263250}

SnapshotFeatures ==
    {[hasProperties |-> TRUE, VolcanoNumber |-> n,
      VolcanoName |-> VolcanoNameOf(n), ContinuingEruption |-> c,
      StartDate |-> e.StartDate,
      ExplosivityIndexMax |-> e.ExplosivityIndexMax] :
        n \in SnapshotNumbers, c \in {"True", "False"}, e \in FeedEruptions}
    \cup {NoPropertiesFeature}

SnapshotFeedResponses ==
    {[kind |-> k, features |-> <<>>] : k \in FailureKinds}
    \cup {[kind |-> "ok", features |-> fs] :
            fs \in SeqsUpTo(SnapshotFeatures, MaxSnapshotFeatures)}

\* The cache entries an earlier call may have left: none, or the map of a
\* response of at most one feature, stored at instant 0
SnapshotCaches ==
    {NullEruptionCache}
    \cup {[isNull |-> FALSE, eruptions |-> EruptionTry(r).map,
           timestamp |-> 0] :
            r \in {x \in SnapshotFeedResponses :
                      /\ x.kind = "ok"
                      /\ Len(x.features) <= 1
                      /\ ~EruptionTry(x).threw}}

InitSnapshot ==
    /\ clock = ERUPTION_CACHE_DURATION
    /\ eruptionCache \in SnapshotCaches
    /\ cachedData = NullCachedData
    /\ activeEruptions = <<>>
    /\ route = [p \in Calls |-> "none"]
    /\ pc = [p \in Calls |-> "idle"]
    /\ now = [p \in Calls |-> 0]
    /\ eruptions = [p \in Calls |-> <<>>]
    /\ volcanoes = [p \in Calls |-> <<>>]
    /\ httpStatus = [p \in Calls |-> 0]
    /\ feedRequests = [p \in Calls |-> 0]
    /\ catalogRequests = [p \in Calls |-> 0]
    /\ feedOutcome = [p \in Calls |-> "none"]
    /\ catalogOutcome = [p \in Calls |-> "none"]
    /\ invalidated = FALSE
    /\ statusBody = [p \in Calls |-> NoStatusBody]
    /\ argVolcanoId = ""
    /\ retStatus = "none"
    /\ argFeed \in SnapshotFeedResponses
    /\ retFeed = NoFeedResult
    /\ argCatalog = NoResponse
    /\ retCatalog = NoCatalogResult
    /\ InitClient

\* fetchActiveEruptions, entered at `clock` with the cache entry expired or
\* absent, receives argFeed
ApplyFetchActiveEruptions ==
    /\ ~retFeed.done
    /\ ~EruptionCacheFresh(eruptionCache, clock)
    /\ LET r == EruptionResume(eruptionCache, clock, argFeed) IN
       retFeed' = [done |-> TRUE, cache |-> r.cache, ret |-> r.ret]
    /\ UNCHANGED <<clock, eruptionCache, cachedData, activeEruptions, route,
                   pc, now, eruptions, volcanoes, httpStatus, feedRequests,
                   catalogRequests, feedOutcome, catalogOutcome, invalidated,
                   statusBody, argVolcanoId, retStatus, argFeed, argCatalog,
                   retCatalog>>
    /\ UNCHANGED clientVars

NextSnapshot == ApplyFetchActiveEruptions

SpecSnapshot == InitSnapshot /\ [][NextSnapshot]_vars

(***************************************************************************)
(* The status route with one request at a time and feed responses over two *)
(* volcano numbers: status GETs and refresh POSTs.                         *)
(***************************************************************************)
StatusFeedResponses ==
    {[kind |-> k, features |-> <<>>] : k \in FailureKinds}
    \cup {[kind |-> "ok", features |-> fs] :
            fs \in SeqsUpTo(SnapshotFeatures, MaxFeedFeatures)}

NextStatusRoute ==
    \/ StartStatus(1)
    \/ \E resp \in StatusFeedResponses : FeedResponse(1, resp)
    \/ Return(1)
    \/ invalidateEruptionCache
    \/ \E t \in EruptionInstants : Advance(t)

SpecStatusRoute == Init /\ [][NextStatusRoute]_vars

(***************************************************************************)
(* The list GET applied on its own, from the catalog response on: to every *)
(* catalog response of up to MaxBuildFeatures features over four volcano   *)
(* numbers and the malformed features, under four eruption maps, with no   *)
(* catalog entry cached.                                                   *)
(***************************************************************************)
\* Etna, Merapi (warning list), Sakurajima, Kilauea
PayloadNumbers == {211060, 263250, 282080, 300150}

PayloadFeatures ==
    {[geometry |-> "Point", hasProperties |-> TRUE, Volcano_Number |-> n,
      Volcano_Name |-> VolcanoNameOf(n)] : n \in PayloadNumbers}
    \cup {f \in CatalogFeatures :
             \/ f.geometry # "Point"
             \/ ~f.hasProperties
             \/ f.Volcano_Name = ""}

PayloadResponses ==
    {[kind |-> k, features |-> <<>>] : k \in FailureKinds}
    \cup {[kind |-> "ok", features |-> fs] :
            fs \in SeqsUpTo(PayloadFeatures, MaxBuildFeatures)}

\* The maps fetchActiveEruptions may have returned: Kilauea and Sakurajima,
\* each erupting or not
PayloadSnapshots ==
    {EruptionLoop(fs, 1, <<>>).map :
        fs \in {<<>>} \cup
               {<<[hasProperties |-> TRUE, VolcanoNumber |-> 300150,
                   VolcanoName |-> "Kilauea", ContinuingEruption |-> c,
                   StartDate |-> "2021-09-29", ExplosivityIndexMax |-> 1],
                  [hasProperties |-> TRUE, VolcanoNumber |-> 282080,
                   VolcanoName |-> "Sakurajima", ContinuingEruption |-> d,
                   StartDate |-> "2024-12-23", ExplosivityIndexMax |-> 2]>> :
                  c, d \in {"True", "False"}}}

InitBuild ==
    /\ clock = 0
    /\ activeEruptions \in PayloadSnapshots
    /\ eruptionCache =
          [isNull |-> FALSE, eruptions |-> activeEruptions, timestamp |-> 0]
    /\ cachedData = NullCachedData
    /\ route = [p \in Calls |-> "none"]
    /\ pc = [p \in Calls |-> "idle"]
    /\ now = [p \in Calls |-> 0]
    /\ eruptions = [p \in Calls |-> <<>>]
    /\ volcanoes = [p \in Calls |-> <<>>]
    /\ httpStatus = [p \in Calls |-> 0]
    /\ feedRequests = [p \in Calls |-> 0]
    /\ catalogRequests = [p \in Calls |-> 0]
    /\ feedOutcome = [p \in Calls |-> "none"]
    /\ catalogOutcome = [p \in Calls |-> "none"]
    /\ invalidated = FALSE
    /\ statusBody = [p \in Calls |-> NoStatusBody]
    /\ argVolcanoId = ""
    /\ retStatus = "none"
    /\ argFeed = NoResponse
    /\ retFeed = NoFeedResult
    /\ argCatalog \in PayloadResponses
    /\ retCatalog = NoCatalogResult
    /\ InitClient

\* The list GET, entered at `clock` with no fresh catalog entry and with
\* activeEruptions assigned, receives argCatalog
ApplyFetchVolcanoData ==
    /\ ~retCatalog.done
    /\ ~CachedDataFresh(cachedData, clock)
    /\ LET g == GetResume(cachedData, clock, VolcanoResume(argCatalog)) IN
       retCatalog' = [done |-> TRUE, cache |-> g.cache,
                      volcanoes |-> g.volcanoes, status |-> g.status]
    /\ UNCHANGED <<clock, eruptionCache, cachedData, activeEruptions, route,
                   pc, now, eruptions, volcanoes, httpStatus, feedRequests,
                   catalogRequests, feedOutcome, catalogOutcome, invalidated,
                   statusBody, argVolcanoId, retStatus, argFeed, retFeed,
                   argCatalog>>
    /\ UNCHANGED clientVars

NextBuild == ApplyFetchVolcanoData

SpecBuild == InitBuild /\ [][NextBuild]_vars

(***************************************************************************)
(* components/PostHogProvider.tsx and components/CookieConsent.tsx: the    *)
(* analytics provider and its consent banner.  Effects and event handlers  *)
(* run in the browser only, where `typeof window` is never "undefined".    *)
(***************************************************************************)
\* What localStorage.getItem(CONSENT_KEY) can give: "none" stands for null
\* (no item), "yes" for a string the banner never writes
StoredValues == {"none", "granted", "denied", "yes"}

getConsentStatus(stored) ==
    IF stored = "granted" \/ stored = "denied" THEN stored ELSE "null"

\* initializePostHog in tab t: initializedRef.current and posthog after the
\* call
initializePostHog(t) ==
    IF initializedRef[t] \/ ~posthogKey
    THEN [initializedRef |-> initializedRef[t], posthog |-> posthog[t]]
    ELSE [initializedRef |-> TRUE, posthog |-> "initialised"]

handleConsentChangeAnyStatus(t, status) ==
    initializePostHog(t)

\* handleConsentChange in tab t: initializedRef.current and posthog after
\* the call
handleConsentChange(t, status) ==
    IF status = "granted"
    THEN initializePostHog(t)
    ELSE [initializedRef |-> initializedRef[t], posthog |-> posthog[t]]

\* The page is loaded in tab t: PostHogProvider mounts and the effects run,
\* the one of CookieConsent (rendered only when the key is configured)
\* before the one of its parent
MountProvider(t) ==
    /\ ~providerMounted[t]
    /\ providerMounted' = [providerMounted EXCEPT ![t] = TRUE]
    /\ bannerTimer' =
         [bannerTimer EXCEPT
            ![t] = (posthogKey /\ getConsentStatus(localStorage) = "null")]
    /\ LET i == IF getConsentStatus(localStorage) = "granted"
                THEN initializePostHog(t)
                ELSE [initializedRef |-> initializedRef[t],
                      posthog |-> posthog[t]] IN
         /\ initializedRef' = [initializedRef EXCEPT ![t] = i.initializedRef]
         /\ posthog' = [posthog EXCEPT ![t] = i.posthog]
    /\ UNCHANGED <<localStorage, posthogKey, showBanner, grantedBefore,
                   lastChoice>>
    /\ UNCHANGED <<serverVars, pureVars, hookVars, pageVars, searchVars>>

\* The timer of CookieConsent's effect fires in tab t: setShowBanner(true)
BannerTimerFires(t) ==
    /\ providerMounted[t]
    /\ bannerTimer[t]
    /\ bannerTimer' = [bannerTimer EXCEPT ![t] = FALSE]
    /\ showBanner' = [showBanner EXCEPT ![t] = TRUE]
    /\ UNCHANGED <<localStorage, posthogKey, providerMounted, initializedRef,
                   posthog, grantedBefore, lastChoice>>
    /\ UNCHANGED <<serverVars, pureVars, hookVars, pageVars, searchVars>>

\* handleConsent in tab t, from the Accept (granted) and Decline buttons of
\* the banner, with the onConsentChange it calls
handleConsent(t, granted) ==
    /\ providerMounted[t]
    /\ showBanner[t]
    /\ LET status == IF granted THEN "granted" ELSE "denied"
           i == handleConsentChange(t, status) IN
         /\ localStorage' = status
         /\ initializedRef' = [initializedRef EXCEPT ![t] = i.initializedRef]
         /\ posthog' = [posthog EXCEPT ![t] = i.posthog]
    /\ showBanner' = [showBanner EXCEPT ![t] = FALSE]
    /\ grantedBefore' = (grantedBefore \/ granted)
    /\ lastChoice' =
         [lastChoice EXCEPT ![t] = IF granted THEN "accept" ELSE "decline"]
    /\ UNCHANGED <<posthogKey, providerMounted, bannerTimer>>
    /\ UNCHANGED <<serverVars, pureVars, hookVars, pageVars, searchVars>>

\* posthog-js of tab t calls `loaded`, which captures the first pageview
PosthogLoaded(t) ==
    /\ posthog[t] = "initialised"
    /\ posthog' = [posthog EXCEPT ![t] = "loaded"]
    /\ UNCHANGED <<localStorage, posthogKey, providerMounted, initializedRef,
                   showBanner, bannerTimer, grantedBefore, lastChoice>>
    /\ UNCHANGED <<serverVars, pureVars, hookVars, pageVars, searchVars>>

\* Tab t is reloaded or closed: its components and its posthog-js start
\* afresh, the cleanup of the effect clears the timer, localStorage stays
Reload(t) ==
    /\ providerMounted[t]
    /\ providerMounted' = [providerMounted EXCEPT ![t] = FALSE]
    /\ initializedRef' = [initializedRef EXCEPT ![t] = FALSE]
    /\ posthog' = [posthog EXCEPT ![t] = "idle"]
    /\ showBanner' = [showBanner EXCEPT ![t] = FALSE]
    /\ bannerTimer' = [bannerTimer EXCEPT ![t] = FALSE]
    /\ lastChoice' = [lastChoice EXCEPT ![t] = "none"]
    /\ UNCHANGED <<localStorage, posthogKey, grantedBefore>>
    /\ UNCHANGED <<serverVars, pureVars, hookVars, pageVars, searchVars>>

\* The user clears the data of the site
StorageCleared ==
    /\ localStorage # "none"
    /\ localStorage' = "none"
    /\ UNCHANGED <<posthogKey, providerMounted, initializedRef, posthog,
                   showBanner, bannerTimer, grantedBefore, lastChoice>>
    /\ UNCHANGED <<serverVars, pureVars, hookVars, pageVars, searchVars>>

InitConsentPage ==
    /\ InitServer
    /\ localStorage \in StoredValues
    /\ posthogKey \in BOOLEAN
    /\ grantedBefore = (localStorage = "granted")
    /\ InitConsent
    /\ InitHook
    /\ InitPage
    /\ InitSearch

NextConsent ==
    \/ \E t \in Tabs : MountProvider(t)
    \/ \E t \in Tabs : BannerTimerFires(t)
    \/ \E t \in Tabs : \E granted \in BOOLEAN : handleConsent(t, granted)
    \/ \E t \in Tabs : PosthogLoaded(t)
    \/ \E t \in Tabs : Reload(t)
    \/ StorageCleared

SpecConsent == InitConsentPage /\ [][NextConsent]_vars

(***************************************************************************)
(* hooks/useVolcanoes.ts: the hook that loads the list into the page.      *)
(***************************************************************************)
\* A volcano as the page receives it from GET /api/volcanoes
ClientVolcano(id, name, country, region, status) ==
    [id |-> id, name |-> name, country |-> country, region |-> region,
     status |-> status]

Kilauea ==
    ClientVolcano("300150", "Kilauea", "United States", "Hawaiian Islands",
                  "erupting")
Etna == ClientVolcano("211060", "Etna", "Italy", "Sicily", "erupting")
Semeru == ClientVolcano("263300", "Semeru", "Indonesia", "Java", "erupting")
Merapi == ClientVolcano("263250", "Merapi", "Indonesia", "Java", "warning")

\* Bodies of the endpoint: no volcano, none erupting, one, three
ClientLists ==
    {<<>>, <<Merapi>>, <<Kilauea, Merapi>>, <<Etna, Kilauea, Semeru, Merapi>>}

\* What `await fetch("/api/volcanoes")` and `await response.json()` give:
\* a 2xx response with a body, another status, or a rejection
ClientResponses ==
    {[kind |-> "ok", volcanoes |-> l, lastUpdated |-> "2024-01-01T00:00:00Z"] :
        l \in ClientLists}
    \cup {[kind |-> k, volcanoes |-> <<>>, lastUpdated |-> "null"] :
             k \in {"status500", "rejected"}}

\* err.message in the catch block
ErrorMessage(resp) ==
    IF resp.kind = "status500"
    THEN "Failed to fetch: 500"
    ELSE "Failed to fetch"

\* fetchVolcanoes up to its `await fetch`
FetchVolcanoesStart ==
    /\ isLoading' = TRUE
    /\ error' = "null"
    /\ started' = started + 1
    /\ inFlight' = inFlight \cup {started + 1}
    /\ UNCHANGED <<clientVolcanoes, lastUpdated>>

\* The hook mounts and its effect calls fetchVolcanoes
MountHook ==
    /\ ~hookMounted
    /\ hookMounted' = TRUE
    /\ FetchVolcanoesStart
    /\ UNCHANGED <<serverVars, pureVars, consentVars, pageVars, searchVars>>

\* refresh(), as the hook returns it
refresh ==
    /\ hookMounted
    /\ started < MaxClientRequests
    /\ FetchVolcanoesStart
    /\ UNCHANGED hookMounted
    /\ UNCHANGED <<serverVars, pureVars, consentVars, pageVars, searchVars>>

\* fetchVolcanoes from the response of call r to its end: the try block
\* after the await, the catch block, the finally block
fetchVolcanoesResume(r, resp) ==
    /\ r \in inFlight
    /\ inFlight' = inFlight \ {r}
    /\ IF resp.kind = "ok"
       THEN /\ clientVolcanoes' = resp.volcanoes
            /\ lastUpdated' = resp.lastUpdated
            /\ UNCHANGED error
       ELSE /\ error' = ErrorMessage(resp)
            /\ UNCHANGED <<clientVolcanoes, lastUpdated>>
    /\ isLoading' = FALSE
    /\ UNCHANGED <<hookMounted, started>>

ClientResponse(r, resp) ==
    /\ fetchVolcanoesResume(r, resp)
    /\ UNCHANGED <<serverVars, pureVars, consentVars, pageVars, searchVars>>

InitHookPage ==
    /\ InitServer
    /\ InitClient

NextHook ==
    \/ MountHook
    \/ refresh
    \/ \E r \in 1..MaxClientRequests : \E resp \in ClientResponses :
          ClientResponse(r, resp)

SpecHook == InitHookPage /\ [][NextHook]_vars

(***************************************************************************)
(* The page (HomeContent) and hooks/useKeyboardShortcuts.ts.  The page is  *)
(* opened by its plain URL, without a `v` parameter, so the effect for the *)
(* initial URL only sets initialUrlHandled, which no handler reads.  The   *)
(* page calls useVolcanoes and never its refresh(): the list is loaded by  *)
(* the one request of the mount effect.                                    *)
(***************************************************************************)
\* event.key of the keydown events: the keys of the switch, Escape, and two
\* keys that are no shortcut
Keys ==
    {"/", "?", "l", "L", "+", "=", "-", "_", "r", "R", "n", "N", "p", "P",
     "Escape", "a", "Enter"}

\* event.target: an HTMLInputElement, an HTMLTextAreaElement, anything else
Targets == {"input", "textarea", "other"}

\* The switch of handleKeyDown: the callback of a key, "none" without a case
SwitchCase(key) ==
    CASE key = "/" -> "onSearch"
      [] key = "?" -> "onHelp"
      [] key \in {"l", "L"} -> "onMyLocation"
      [] key \in {"+", "="} -> "onZoomIn"
      [] key \in {"-", "_"} -> "onZoomOut"
      [] key \in {"r", "R"} -> "onResetView"
      [] key \in {"n", "N"} -> "onNextErupting"
      [] key \in {"p", "P"} -> "onPrevErupting"
      [] OTHER -> "none"

handleKeyDownModalFirst(key, target, searchOpen, helpOpen) ==
    IF target \in {"input", "textarea"}
    THEN [called |-> IF key = "Escape" THEN "onClose" ELSE "none",
          preventDefault |-> FALSE]
    ELSE IF searchOpen \/ helpOpen
    THEN [called |-> "none", preventDefault |-> FALSE]
    ELSE IF key = "Escape"
    THEN [called |-> "onClose", preventDefault |-> FALSE]
    ELSE [called |-> SwitchCase(key),
          preventDefault |-> SwitchCase(key) # "none"]

\* handleKeyDown of useKeyboardShortcuts: the callback it calls, and whether
\* it calls event.preventDefault()
handleKeyDown(key, target, searchOpen, helpOpen) ==
    IF target \in {"input", "textarea"}
    THEN [called |-> IF key = "Escape" THEN "onClose" ELSE "none",
          preventDefault |-> FALSE]
    ELSE IF key = "Escape"
    THEN [called |-> "onClose", preventDefault |-> FALSE]
    ELSE IF searchOpen \/ helpOpen
    THEN [called |-> "none", preventDefault |-> FALSE]
    ELSE [called |-> SwitchCase(key),
          preventDefault |-> SwitchCase(key) # "none"]

\* The % of JavaScript: the remainder has the sign of the dividend
Remainder(a, n) == IF a >= 0 THEN a % n ELSE 0 - ((0 - a) % n)

\* list[i] of JavaScript, from 0; out of range it is undefined
IdAt(list, i) ==
    IF i >= 0 /\ i < Len(list) THEN list[i + 1].id ELSE "undefined"

IsErupting(v) == v.status = "erupting"

eruptingVolcanoes == SelectSeq(clientVolcanoes, IsErupting)

\* The page's state after a callback: the fields a callback may set
PageState ==
    [isSearchOpen |-> isSearchOpen, isHelpOpen |-> isHelpOpen,
     isInfoOpen |-> isInfoOpen, isLocating |-> isLocating,
     selectedVolcano |-> selectedVolcano, eruptingIndex |-> eruptingIndex]

handleClose ==
    IF isSearchOpen THEN [PageState EXCEPT !.isSearchOpen = FALSE]
    ELSE IF isHelpOpen THEN [PageState EXCEPT !.isHelpOpen = FALSE]
    ELSE IF isInfoOpen THEN [PageState EXCEPT !.isInfoOpen = FALSE]
    ELSE IF selectedVolcano # "null"
    THEN [PageState EXCEPT !.selectedVolcano = "null"]
    ELSE PageState

handleNextErupting ==
    IF Len(eruptingVolcanoes) = 0
    THEN PageState
    ELSE LET nextIndex ==
               Remainder(eruptingIndex + 1, Len(eruptingVolcanoes)) IN
         [PageState EXCEPT
            !.eruptingIndex = nextIndex,
            !.selectedVolcano = IdAt(eruptingVolcanoes, nextIndex)]

handlePrevEruptingNoWrap ==
    IF Len(eruptingVolcanoes) = 0
    THEN PageState
    ELSE LET prevIndex ==
               Remainder(eruptingIndex - 1, Len(eruptingVolcanoes)) IN
         [PageState EXCEPT
            !.eruptingIndex = prevIndex,
            !.selectedVolcano = IdAt(eruptingVolcanoes, prevIndex)]

handlePrevErupting ==
    IF Len(eruptingVolcanoes) = 0
    THEN PageState
    ELSE LET prevIndex ==
               Remainder(eruptingIndex - 1 + Len(eruptingVolcanoes),
                         Len(eruptingVolcanoes)) IN
         [PageState EXCEPT
            !.eruptingIndex = prevIndex,
            !.selectedVolcano = IdAt(eruptingVolcanoes, prevIndex)]

\* handleMyLocation: an alert and nothing else when geolocation is missing
\* or the page is served over plain http, else setIsLocating(true)
handleMyLocation(available) ==
    IF available THEN [PageState EXCEPT !.isLocating = TRUE] ELSE PageState

\* The page's state after the callback handleKeyDown calls; the zoom and
\* reset callbacks act on the scene only
AfterCallback(called, available) ==
    CASE called = "onClose" -> handleClose
      [] called = "onSearch" -> [PageState EXCEPT !.isSearchOpen = TRUE]
      [] called = "onHelp" -> [PageState EXCEPT !.isHelpOpen = TRUE]
      [] called = "onMyLocation" -> handleMyLocation(available)
      [] called = "onNextErupting" -> handleNextErupting
      [] called = "onPrevErupting" -> handlePrevErupting
      [] OTHER -> PageState

\* The effect of SearchBar on isOpen: closed, it resets its state
SearchBarEffect ==
    IF isSearchOpen'
    THEN UNCHANGED searchVars
    ELSE /\ query' = <<>>
         /\ results' = <<>>
         /\ selectedIndex' = 0

SetPageState(st) ==
    /\ isSearchOpen' = st.isSearchOpen
    /\ isHelpOpen' = st.isHelpOpen
    /\ isInfoOpen' = st.isInfoOpen
    /\ isLocating' = st.isLocating
    /\ selectedVolcano' = st.selectedVolcano
    /\ eruptingIndex' = st.eruptingIndex

\* A keydown event reaches the listener of the window; whether geolocation
\* is available matters to onMyLocation only
KeyDown(key, target) ==
    /\ hookMounted
    /\ LET h == handleKeyDown(key, target, isSearchOpen, isHelpOpen) IN
         /\ keyEvent' = [key |-> key, target |-> target,
                         searchOpen |-> isSearchOpen,
                         helpOpen |-> isHelpOpen, called |-> h.called,
                         preventDefault |-> h.preventDefault]
         /\ \E available \in IF h.called = "onMyLocation"
                              THEN BOOLEAN ELSE {TRUE} :
               SetPageState(AfterCallback(h.called, available))
    /\ SearchBarEffect
    /\ UNCHANGED <<serverVars, pureVars, consentVars, hookVars>>

\* The getCurrentPosition callbacks, success or error: setIsLocating(false)
GeolocationDone ==
    /\ isLocating
    /\ isLocating' = FALSE
    /\ UNCHANGED <<isSearchOpen, isHelpOpen, isInfoOpen, selectedVolcano,
                   eruptingIndex, keyEvent>>
    /\ UNCHANGED <<serverVars, pureVars, consentVars, hookVars, searchVars>>

\* The buttons of the page: the onSearch, onHelp and InfoButton props open
\* a modal, the onClose props of the modals close it
SetModal(modal, open) ==
    /\ hookMounted
    /\ isSearchOpen' = IF modal = "search" THEN open ELSE isSearchOpen
    /\ isHelpOpen' = IF modal = "help" THEN open ELSE isHelpOpen
    /\ isInfoOpen' = IF modal = "info" THEN open ELSE isInfoOpen
    /\ SearchBarEffect
    /\ UNCHANGED <<isLocating, selectedVolcano, eruptingIndex, keyEvent>>
    /\ UNCHANGED <<serverVars, pureVars, consentVars, hookVars>>

\* handleSelectVolcano, from a click in the scene (a volcano of the list)
\* or from the onClose of the panel (null)
handleSelectVolcano(id) ==
    /\ hookMounted
    /\ selectedVolcano' = id
    /\ UNCHANGED <<isSearchOpen, isHelpOpen, isInfoOpen, isLocating,
                   eruptingIndex, keyEvent>>
    /\ UNCHANGED <<serverVars, pureVars, consentVars, hookVars, searchVars>>

NextPage ==
    \/ MountHook
    \/ \E resp \in ClientResponses : ClientResponse(1, resp)
    \/ \E key \in Keys : \E target \in Targets : KeyDown(key, target)
    \/ GeolocationDone
    \/ \E modal \in {"search", "help", "info"} : \E open \in BOOLEAN :
          SetModal(modal, open)
    \/ \E id \in {clientVolcanoes[i].id : i \in 1..Len(clientVolcanoes)}
                    \cup {"null"} : handleSelectVolcano(id)

SpecPage == InitHookPage /\ [][NextPage]_vars

(***************************************************************************)
(* components/SearchBar.tsx: the search modal of the page.  A string is    *)
(* searched as the sequence of its characters.                             *)
(***************************************************************************)
Agung ==
    ClientVolcano("263340", "Agung", "Indonesia", "Lesser Sunda Islands",
                  "warning")
Krakatau ==
    ClientVolcano("264020", "Krakatau", "Indonesia", "Sunda Strait",
                  "watch")
Bromo == ClientVolcano("263310", "Bromo", "Indonesia", "Java", "watch")
Raung == ClientVolcano("264140", "Raung", "Indonesia", "Java", "advisory")
Sinabung ==
    ClientVolcano("261080", "Sinabung", "Indonesia", "Sumatra",
                  "normal")
Dukono ==
    ClientVolcano("268010", "Dukono", "Indonesia", "Halmahera",
                  "normal")
Ibu == ClientVolcano("268030", "Ibu", "Indonesia", "Halmahera", "normal")

\* The lists the search runs over: the list of the page once loaded
SearchLists ==
    {<<Etna, Kilauea, Semeru, Agung, Merapi, Bromo, Krakatau, Raung, Dukono,
       Ibu, Sinabung>>,
     <<Etna, Kilauea, Semeru, Merapi>>}

\* The characters of the strings of these lists
Chars(str) ==
    CASE str = "Kilauea" -> <<"K", "i", "l", "a", "u", "e", "a">>
      [] str = "Etna" -> <<"E", "t", "n", "a">>
      [] str = "Semeru" -> <<"S", "e", "m", "e", "r", "u">>
      [] str = "Merapi" -> <<"M", "e", "r", "a", "p", "i">>
      [] str = "Agung" -> <<"A", "g", "u", "n", "g">>
      [] str = "Krakatau" -> <<"K", "r", "a", "k", "a", "t", "a", "u">>
      [] str = "Bromo" -> <<"B", "r", "o", "m", "o">>
      [] str = "Raung" -> <<"R", "a", "u", "n", "g">>
      [] str = "Sinabung" -> <<"S", "i", "n", "a", "b", "u", "n", "g">>
      [] str = "Dukono" -> <<"D", "u", "k", "o", "n", "o">>
      [] str = "Ibu" -> <<"I", "b", "u">>
      [] str = "United States" -> <<"U", "n", "i", "t", "e", "d", " ", "S",
             "t", "a", "t", "e", "s">>
      [] str = "Italy" -> <<"I", "t", "a", "l", "y">>
      [] str = "Indonesia" -> <<"I", "n", "d", "o", "n", "e", "s", "i", "a">>
      [] str = "Hawaiian Islands" -> <<"H", "a", "w", "a", "i", "i", "a", "n",
             " ", "I", "s", "l", "a", "n", "d", "s">>
      [] str = "Sicily" -> <<"S", "i", "c", "i", "l", "y">>
      [] str = "Java" -> <<"J", "a", "v", "a">>
      [] str = "Lesser Sunda Islands" -> <<"L", "e", "s", "s", "e", "r", " ",
             "S", "u", "n", "d", "a", " ", "I", "s", "l", "a", "n", "d", "s">>
      [] str = "Sunda Strait" -> <<"S", "u", "n", "d", "a", " ", "S", "t",
             "r", "a", "i", "t">>
      [] str = "Sumatra" -> <<"S", "u", "m", "a", "t", "r", "a">>
      [] str = "Halmahera" -> <<"H", "a", "l", "m", "a", "h", "e", "r", "a">>
      [] OTHER -> <<>>

UpperCaseLetters ==
    <<"A", "B", "D", "E", "H", "I", "J", "K", "L", "M", "N", "R", "S", "U">>

LowerCaseLetters ==
    <<"a", "b", "d", "e", "h", "i", "j", "k", "l", "m", "n", "r", "s", "u">>

\* String.prototype.toLowerCase, on the letters that occur
toLowerCase(chars) ==
    [k \in 1..Len(chars) |->
        IF \E j \in 1..Len(UpperCaseLetters) : UpperCaseLetters[j] = chars[k]
        THEN LowerCaseLetters[CHOOSE j \in 1..Len(UpperCaseLetters) :
                                 UpperCaseLetters[j] = chars[k]]
        ELSE chars[k]]

\* String.prototype.includes and startsWith
includes(chars, q) ==
    \E k \in 0..(Len(chars) - Len(q)) : SubSeq(chars, k + 1, k + Len(q)) = q

startsWith(chars, q) ==
    Len(q) <= Len(chars) /\ SubSeq(chars, 1, Len(q)) = q

\* The values the input can take: typed, pasted or cut
Queries ==
    {<<>>, <<"i">>, <<"i", "n">>, <<"I", "N">>, <<"e", "t">>, <<"j", "a">>,
     <<"z", "z">>}

\* The predicate of the filter of handleSearch
SearchMatches(v, lowerQuery) ==
    \/ includes(toLowerCase(Chars(v.name)), lowerQuery)
    \/ includes(toLowerCase(Chars(v.country)), lowerQuery)
    \/ includes(toLowerCase(Chars(v.region)), lowerQuery)

\* Array.prototype.slice(0, n)
Slice(seq, n) == SubSeq(seq, 1, IF Len(seq) < n THEN Len(seq) ELSE n)

statusOrder(st) ==
    CASE st = "erupting" -> 0
      [] st = "warning" -> 1
      [] st = "watch" -> 2
      [] st = "advisory" -> 3
      [] OTHER -> 4

\* The comparator of the sort of handleSearch
SearchCompare(a, b, lowerQuery) ==
    LET aNameMatch ==
            IF startsWith(toLowerCase(Chars(a.name)), lowerQuery)
            THEN 0 ELSE 1
        bNameMatch ==
            IF startsWith(toLowerCase(Chars(b.name)), lowerQuery)
            THEN 0 ELSE 1 IN
    IF aNameMatch # bNameMatch
    THEN aNameMatch - bNameMatch
    ELSE statusOrder(a.status) - statusOrder(b.status)

\* Array.prototype.sort, which is stable: v goes before the first element
\* it is less than
RECURSIVE SearchInsert(_, _, _)
SearchInsert(seq, v, lowerQuery) ==
    IF seq = <<>>
    THEN <<v>>
    ELSE IF SearchCompare(v, Head(seq), lowerQuery) < 0
    THEN <<v>> \o seq
    ELSE <<Head(seq)>> \o SearchInsert(Tail(seq), v, lowerQuery)

RECURSIVE SearchSort(_, _)
SearchSort(seq, lowerQuery) ==
    IF seq = <<>>
    THEN <<>>
    ELSE SearchInsert(SearchSort(SubSeq(seq, 1, Len(seq) - 1), lowerQuery),
                      seq[Len(seq)], lowerQuery)

\* The filter of handleSearch
RECURSIVE SearchFilter(_, _)
SearchFilter(seq, lowerQuery) ==
    IF seq = <<>>
    THEN <<>>
    ELSE IF SearchMatches(Head(seq), lowerQuery)
    THEN <<Head(seq)>> \o SearchFilter(Tail(seq), lowerQuery)
    ELSE SearchFilter(Tail(seq), lowerQuery)

\* handleSearch, the onChange of the input
handleSearch(searchQuery) ==
    /\ isSearchOpen
    /\ query' = searchQuery
    /\ IF Len(searchQuery) < 2
       THEN /\ results' = <<>>
            /\ UNCHANGED selectedIndex
       ELSE LET lowerQuery == toLowerCase(searchQuery)
                filtered ==
                    Slice(SearchFilter(clientVolcanoes, lowerQuery), 8) IN
            /\ results' = SearchSort(filtered, lowerQuery)
            /\ selectedIndex' = 0
    /\ UNCHANGED <<serverVars, pureVars, consentVars, hookVars, pageVars>>

Min(a, b) == IF a < b THEN a ELSE b

Max(a, b) == IF a > b THEN a ELSE b

\* handleSearchSelect and onClose, called by Enter and by a click on a
\* result, and the effect of SearchBar that resets it when it closes
SelectAndClose(id) ==
    /\ selectedVolcano' = id
    /\ isSearchOpen' = FALSE
    /\ query' = <<>>
    /\ results' = <<>>
    /\ selectedIndex' = 0
    /\ UNCHANGED <<isHelpOpen, isInfoOpen, isLocating, eruptingIndex,
                   keyEvent>>

\* handleKeyDown of SearchBar, the onKeyDown of the input
searchHandleKeyDown(key) ==
    /\ isSearchOpen
    /\ CASE key = "ArrowDown" ->
              /\ selectedIndex' = Min(selectedIndex + 1, Len(results) - 1)
              /\ UNCHANGED <<query, results, pageVars>>
         [] key = "ArrowUp" ->
              /\ selectedIndex' = Max(selectedIndex - 1, 0)
              /\ UNCHANGED <<query, results, pageVars>>
         [] key = "Enter" ->
              IF IdAt(results, selectedIndex) # "undefined"
              THEN SelectAndClose(IdAt(results, selectedIndex))
              ELSE UNCHANGED <<searchVars, pageVars>>
         [] key = "Escape" ->
              /\ isSearchOpen' = FALSE
              /\ query' = <<>>
              /\ results' = <<>>
              /\ selectedIndex' = 0
              /\ UNCHANGED <<isHelpOpen, isInfoOpen, isLocating,
                             selectedVolcano, eruptingIndex, keyEvent>>
         [] OTHER -> UNCHANGED <<searchVars, pageVars>>
    /\ UNCHANGED <<serverVars, pureVars, consentVars, hookVars>>

\* handleResultClick on the result at index i
handleResultClick(i) ==
    /\ isSearchOpen
    /\ i < Len(results)
    /\ SelectAndClose(IdAt(results, i))
    /\ UNCHANGED <<serverVars, pureVars, consentVars, hookVars>>

\* The page with its list loaded, for any of the lists
InitSearchPage ==
    /\ InitServer
    /\ localStorage = "none"
    /\ posthogKey = FALSE
    /\ grantedBefore = FALSE
    /\ InitConsent
    /\ hookMounted = TRUE
    /\ clientVolcanoes \in SearchLists
    /\ isLoading = FALSE
    /\ error = "null"
    /\ lastUpdated = "2024-01-01T00:00:00Z"
    /\ started = 1
    /\ inFlight = {}
    /\ InitPage
    /\ InitSearch

NextSearch ==
    \/ \E open \in BOOLEAN : SetModal("search", open)
    \/ \E searchQuery \in Queries : handleSearch(searchQuery)
    \/ \E key \in {"ArrowDown", "ArrowUp", "Enter", "Escape", "a"} :
          searchHandleKeyDown(key)
    \/ \E i \in 0..7 : handleResultClick(i)

SpecSearch == InitSearchPage /\ [][NextSearch]_vars

(***************************************************************************)
(* Properties.                                                             *)
(***************************************************************************)
ThirtyMinutes == 30 * 60 * 1000
SixHours == 6 * 60 * 60 * 1000

\* Call p starts in this step
Starts(p) == pc[p] = "idle" /\ pc'[p] # "idle"

\* Call p starts in this step and enters fetchActiveEruptions
StartsFetchActiveEruptions(p) ==
    /\ Starts(p)
    /\ \/ route'[p] = "status"
       \/ route'[p] = "list" /\ catalogOutcome'[p] # "hit"

\* The response of the feed reaches call p in this step, and it is a failure
FeedFails(p) == pc[p] = "awaitFeed" /\ feedOutcome'[p] = "failed"

\* The response of the catalog reaches call p in this step, and it is a failure
CatalogFails(p) == pc[p] = "awaitCatalog" /\ catalogOutcome'[p] = "failed"

\* The map the catch block is to return: the cached one, whatever its age
StaleOrEmpty == IF eruptionCache.isNull THEN <<>> ELSE eruptionCache.eruptions

\* C1: whatever way the feed fails, fetchActiveEruptions returns normally,
\* with the cached map if a cache entry exists (of any age) and an empty map
\* otherwise: the status GET answers 200 with that map, the list GET takes it
\* as activeEruptions and goes on to the catalog request.
C1_FeedFailureReturnsStaleOrEmpty ==
    [][\A p \in Calls :
          FeedFails(p) =>
             /\ eruptions'[p] = StaleOrEmpty
             /\ route[p] = "status" =>
                   pc'[p] = "done" /\ httpStatus'[p] = 200
             /\ route[p] = "list" =>
                   pc'[p] = "awaitCatalog" /\ activeEruptions' = StaleOrEmpty
      ]_vars

\* C1 witness: a status GET has answered with the entries of a cache entry
\* older than 30 minutes after its feed request failed
C1_Witness ==
    \E p \in Calls :
        /\ pc[p] = "done"
        /\ feedOutcome[p] = "failed"
        /\ httpStatus[p] = 200
        /\ eruptions[p] # <<>>
        /\ ~eruptionCache.isNull
        /\ eruptions[p] = eruptionCache.eruptions
        /\ now[p] - eruptionCache.timestamp > ThirtyMinutes

\* C2: a call that enters fetchActiveEruptions while a cache entry exists
\* whose age is below 30 minutes gets exactly the cached map, sends no
\* request to the feed and leaves the cache entry as it is.
C2_FreshEruptionCacheServed ==
    [][\A p \in Calls :
          (/\ StartsFetchActiveEruptions(p)
           /\ ~eruptionCache.isNull
           /\ clock - eruptionCache.timestamp < ThirtyMinutes) =>
             /\ eruptions'[p] = eruptionCache.eruptions
             /\ feedOutcome'[p] = "hit"
             /\ pc'[p] # "awaitFeed"
             /\ feedRequests'[p] = 0
             /\ eruptionCache' = eruptionCache
      ]_vars

\* C2 witness: a status GET was served a non-empty map from an entry that was
\* 15 minutes old
C2_Witness ==
    \E p \in Calls :
        /\ route[p] = "status"
        /\ pc[p] = "done"
        /\ feedOutcome[p] = "hit"
        /\ feedRequests[p] = 0
        /\ eruptions[p] # <<>>
        /\ ~eruptionCache.isNull
        /\ eruptions[p] = eruptionCache.eruptions
        /\ now[p] - eruptionCache.timestamp = ThirtyMinutes \div 2

\* C3: a failed fetchActiveEruptions leaves eruptionCache as it is; a new
\* entry is stored only by a call whose feed response was a success; and
\* every call that enters fetchActiveEruptions with no entry, or with one
\* whose age has reached 30 minutes, sends a request to the feed.
C3_EruptionCacheReplacedOnSuccessOnly ==
    /\ [][\A p \in Calls : FeedFails(p) => eruptionCache' = eruptionCache]_vars
    /\ [][(eruptionCache' # eruptionCache /\ ~eruptionCache'.isNull) =>
             \E p \in Calls :
                 /\ pc[p] = "awaitFeed"
                 /\ feedOutcome'[p] = "ok"
                 /\ eruptionCache'.timestamp = now[p]]_vars
    /\ [][\A p \in Calls :
             (/\ StartsFetchActiveEruptions(p)
              /\ \/ eruptionCache.isNull
                 \/ clock - eruptionCache.timestamp >= ThirtyMinutes) =>
                pc'[p] = "awaitFeed" /\ feedRequests'[p] = 1]_vars

\* C3 witness: after a failed call the entry is still the stale one, and a
\* later call has sent its own request to the feed
C3_Witness ==
    \E p, q \in Calls :
        /\ pc[p] = "done"
        /\ feedOutcome[p] = "failed"
        /\ ~eruptionCache.isNull
        /\ eruptionCache.timestamp < now[p]
        /\ pc[q] = "awaitFeed"
        /\ now[q] > now[p]
        /\ now[q] - eruptionCache.timestamp >= ThirtyMinutes

\* C4: the first call that enters fetchActiveEruptions after
\* invalidateEruptionCache sends a request to the feed.
C4_InvalidationForcesFetch ==
    [][\A p \in Calls :
          (StartsFetchActiveEruptions(p) /\ invalidated) =>
             pc'[p] = "awaitFeed" /\ feedRequests'[p] = 1
      ]_vars

\* C5: a list GET made while a catalog cache entry exists whose age is below
\* 6 hours responds with exactly the list of that entry, sends no request to
\* the catalog or to the feed and leaves both caches as they are; and the
\* call that stores an entry responds with the list it stores.  Two calls in
\* the window of one entry therefore respond with the same list.
C5_FreshCatalogServedWithoutRequest ==
    /\ [][\A p \in Calls :
             (/\ Starts(p)
              /\ route'[p] = "list"
              /\ ~cachedData.isNull
              /\ clock - cachedData.timestamp < SixHours) =>
                /\ pc'[p] = "done"
                /\ httpStatus'[p] = 200
                /\ volcanoes'[p] = cachedData.volcanoes
                /\ feedRequests'[p] = 0
                /\ catalogRequests'[p] = 0
                /\ cachedData' = cachedData
                /\ eruptionCache' = eruptionCache]_vars
    /\ [][cachedData' # cachedData =>
             \E p \in Calls :
                 /\ pc[p] # "done"
                 /\ pc'[p] = "done"
                 /\ volcanoes'[p] = cachedData'.volcanoes]_vars

\* C5 witness: the call that built the entry and a later call served by the
\* cache hold the same non-empty list, the later one without any request
C5_Witness ==
    \E p, q \in Calls :
        /\ route[p] = "list" /\ pc[p] = "done" /\ catalogOutcome[p] = "ok"
        /\ route[q] = "list" /\ pc[q] = "done" /\ catalogOutcome[q] = "hit"
        /\ now[q] > now[p]
        /\ cachedData.timestamp = now[p]
        /\ feedRequests[q] = 0 /\ catalogRequests[q] = 0
        /\ volcanoes[p] # <<>>
        /\ volcanoes[q] = volcanoes[p]

\* C6: a read never sends more than one request to an upstream; a list GET
\* that finds a catalog entry whose age has reached 6 hours is not served by
\* the cache and has sent exactly one request to the catalog when it
\* responds; a call that enters fetchActiveEruptions and finds an entry whose
\* age has reached 30 minutes sends exactly one request to the feed.
C6_ExpiredEntryFetchedOnce ==
    /\ [](\A p \in Calls :
             /\ feedRequests[p] <= 1
             /\ catalogRequests[p] <= 1
             /\ pc[p] = "awaitFeed" =>
                   feedRequests[p] = 1 /\ catalogRequests[p] = 0
             /\ pc[p] = "awaitCatalog" => catalogRequests[p] = 1
             /\ (pc[p] = "done" /\ feedOutcome[p] \in {"ok", "failed"}) =>
                   feedRequests[p] = 1
             /\ (pc[p] = "done" /\ catalogOutcome[p] \in {"ok", "failed"}) =>
                   catalogRequests[p] = 1)
    /\ [][\A p \in Calls :
             (/\ Starts(p)
              /\ route'[p] = "list"
              /\ ~cachedData.isNull
              /\ clock - cachedData.timestamp >= SixHours) =>
                /\ pc'[p] \in {"awaitFeed", "awaitCatalog"}
                /\ catalogOutcome'[p] = "none"]_vars
    /\ [][\A p \in Calls :
             (/\ StartsFetchActiveEruptions(p)
              /\ ~eruptionCache.isNull
              /\ clock - eruptionCache.timestamp >= ThirtyMinutes) =>
                pc'[p] = "awaitFeed" /\ feedRequests'[p] = 1]_vars
    /\ [][\A p \in Calls :
             (/\ pc[p] = "awaitFeed"
              /\ pc'[p] # "awaitFeed"
              /\ route[p] = "list") =>
                pc'[p] = "awaitCatalog" /\ catalogRequests'[p] = 1]_vars

\* C6 witness: one call waits for the catalog, started when the catalog entry
\* was exactly 6 hours old; another waits for the feed, started when the
\* eruption entry was exactly 30 minutes old
C6_Witness ==
    \E p, q \in Calls :
        /\ pc[p] = "awaitCatalog"
        /\ ~cachedData.isNull
        /\ now[p] - cachedData.timestamp = SixHours
        /\ catalogRequests[p] = 1
        /\ pc[q] = "awaitFeed"
        /\ ~eruptionCache.isNull
        /\ now[q] - eruptionCache.timestamp = ThirtyMinutes
        /\ feedRequests[q] = 1

\* The hardcoded fallback: five volcanoes, all erupting
IsFallbackList(vs) ==
    /\ Len(vs) = 5
    /\ \A i \in 1..5 : vs[i].status = "erupting"
    /\ <<vs[1].id, vs[2].id, vs[3].id, vs[4].id, vs[5].id>> =
          <<"300150", "211040", "211060", "282080", "263300">>
    /\ <<vs[1].name, vs[2].name, vs[3].name, vs[4].name, vs[5].name>> =
          <<"Kilauea", "Stromboli", "Etna", "Sakurajima", "Semeru">>

\* C7: whatever way the catalog request fails, the list GET responds 200 with
\* exactly the five-entry fallback list, whether or not a list is cached.
C7_CatalogFailureReturnsFallback ==
    [][\A p \in Calls :
          CatalogFails(p) =>
             /\ pc'[p] = "done"
             /\ httpStatus'[p] = 200
             /\ IsFallbackList(volcanoes'[p])
      ]_vars

\* C7 witness: a call whose catalog request failed holds the fallback, while
\* a call served by the cache before it holds a list built from the catalog
C7_Witness ==
    \E p, q \in Calls :
        /\ pc[p] = "done" /\ catalogOutcome[p] = "failed"
        /\ IsFallbackList(volcanoes[p])
        /\ pc[q] = "done" /\ catalogOutcome[q] = "hit"
        /\ now[q] < now[p]
        /\ volcanoes[q] # <<>>
        /\ ~IsFallbackList(volcanoes[q])

\* C8: a list GET whose catalog request failed leaves cachedData as it was.
C8_CatalogFailureLeavesCache ==
    [][\A p \in Calls : CatalogFails(p) => cachedData' = cachedData]_vars

\* Ascending by (statusPriority, name)
SortedByStatusThenName(vs) ==
    \A i, j \in 1..Len(vs) :
        i < j =>
           \/ statusPriority(vs[i].status) < statusPriority(vs[j].status)
           \/ /\ statusPriority(vs[i].status) = statusPriority(vs[j].status)
              /\ NameRank(vs[i].name) <= NameRank(vs[j].name)

\* C9: the list in every response of the list GET is non-empty and sorted
\* ascending by (statusPriority, name).
C9_ListNonEmptyAndSorted ==
    \A p \in Calls :
        (route[p] = "list" /\ pc[p] = "done") =>
           /\ volcanoes[p] # <<>>
           /\ SortedByStatusThenName(volcanoes[p])

\* The statuses an id matches: erupting when it is in the eruption map, the
\* status of each watchlist that holds it, and normal
MatchingStatuses(id) ==
    {"normal"}
    \cup (IF id \in MapIds(activeEruptions) THEN {"erupting"} ELSE {})
    \cup (IF id \in WARNING_VOLCANO_IDS THEN {"warning"} ELSE {})
    \cup (IF id \in WATCH_VOLCANO_IDS THEN {"watch"} ELSE {})
    \cup (IF id \in ADVISORY_VOLCANO_IDS THEN {"advisory"} ELSE {})

\* C10: determineStatus returns the matching status that comes first in the
\* order erupting, warning, watch, advisory, normal.
C10_StatusIsHighestPriorityMatch ==
    retStatus # "none" =>
       /\ retStatus \in MatchingStatuses(argVolcanoId)
       /\ \A s \in MatchingStatuses(argVolcanoId) :
             statusPriority(retStatus) <= statusPriority(s)

\* C10 witness: the id of the watch and the advisory list, not erupting, has
\* been given the status watch
C10_Witness ==
    /\ argVolcanoId = "264020"
    /\ argVolcanoId \in WATCH_VOLCANO_IDS \cap ADVISORY_VOLCANO_IDS
    /\ ~MapHas(activeEruptions, argVolcanoId)
    /\ retStatus = "watch"

\* The status priorities: erupting 0 < warning 1 < watch 2 < advisory 3 <
\* normal 4
PriorityOf(s) ==
    CASE s = "erupting" -> 0
      [] s = "warning"  -> 1
      [] s = "watch"    -> 2
      [] s = "advisory" -> 3
      [] s = "normal"   -> 4

\* C11: in the list built from a catalog response that succeeds, for every
\* pair of positions i < j the priority at i is lower than or equal to the
\* priority at j and, when they are equal, the name at i does not compare
\* after the name at j; an erupting volcano precedes every normal one.
C11_BuiltListSortedByPriorityThenName ==
    (retCatalog.done /\ argCatalog.kind = "ok") =>
       LET vs == retCatalog.volcanoes IN
       /\ \A i, j \in 1..Len(vs) :
             i < j =>
                /\ PriorityOf(vs[i].status) <= PriorityOf(vs[j].status)
                /\ PriorityOf(vs[i].status) = PriorityOf(vs[j].status) =>
                      NameRank(vs[i].name) <= NameRank(vs[j].name)
       /\ \A i, j \in 1..Len(vs) :
             (vs[i].status = "erupting" /\ vs[j].status = "normal") => i < j

\* C11 witness: the catalog lists Etna (normal) first, then Sakurajima
\* (erupting) and Merapi (warning); the list built is Sakurajima, Merapi,
\* Etna, against the order of the names
C11_Witness ==
    /\ retCatalog.done
    /\ argCatalog.kind = "ok"
    /\ Len(argCatalog.features) = 3
    /\ argCatalog.features[1].Volcano_Name = "Etna"
    /\ Len(retCatalog.volcanoes) = 3
    /\ retCatalog.volcanoes[1].name = "Sakurajima"
    /\ retCatalog.volcanoes[1].status = "erupting"
    /\ retCatalog.volcanoes[2].name = "Merapi"
    /\ retCatalog.volcanoes[2].status = "warning"
    /\ retCatalog.volcanoes[3].name = "Etna"
    /\ retCatalog.volcanoes[3].status = "normal"

\* The request and the parse succeed and every feature has properties
FeedSucceeds(resp) ==
    /\ resp.kind = "ok"
    /\ \A i \in 1..Len(resp.features) : resp.features[i].hasProperties

\* The positions of the records of volcano number n in the response whose
\* continuing flag is true
ContinuingAt(resp, n) ==
    {i \in 1..Len(resp.features) :
        /\ resp.features[i].VolcanoNumber = n
        /\ resp.features[i].ContinuingEruption = "True"}

\* The entry carries the fields of the first continuing record of n
IsFirstContinuing(resp, n, entry) ==
    \E i \in ContinuingAt(resp, n) :
        /\ \A j \in ContinuingAt(resp, n) : i <= j
        /\ entry.volcanoName = resp.features[i].VolcanoName
        /\ entry.startDate = resp.features[i].StartDate
        /\ entry.vei = resp.features[i].ExplosivityIndexMax

HasAllRequired(f) ==
    /\ f.geometry = "Point"
    /\ f.hasProperties
    /\ f.Volcano_Name # ""

\* C13: a catalog response that succeeds yields, whatever malformed features
\* it holds (no geometry, no coordinates, no properties, no name), a 200
\* response whose list has exactly one Volcano per feature that has all
\* four, and that is not the fallback; the same list is cached.
C13_MalformedFeaturesDropped ==
    (retCatalog.done /\ argCatalog.kind = "ok") =>
       LET vs == retCatalog.volcanoes
           fs == argCatalog.features
       IN
       /\ retCatalog.status = 200
       /\ Len(vs) =
             Cardinality({i \in 1..Len(fs) : HasAllRequired(fs[i])})
       /\ \A n \in PayloadNumbers :
             Cardinality({i \in 1..Len(vs) : vs[i].id = String(n)}) =
             Cardinality({i \in 1..Len(fs) :
                            /\ HasAllRequired(fs[i])
                            /\ fs[i].Volcano_Number = n})
       /\ ~IsFallbackList(vs)
       /\ retCatalog.cache.volcanoes = vs

\* C13 witness: a feature without geometry and a well-formed feature yield
\* the one-element list of the well-formed one
C13_Witness ==
    /\ retCatalog.done
    /\ argCatalog.kind = "ok"
    /\ Len(argCatalog.features) = 2
    /\ argCatalog.features[1].geometry = "none"
    /\ HasAllRequired(argCatalog.features[2])
    /\ Len(retCatalog.volcanoes) = 1
    /\ retCatalog.volcanoes[1].id =
          String(argCatalog.features[2].Volcano_Number)
    /\ retCatalog.volcanoes[1].name = argCatalog.features[2].Volcano_Name
    /\ retCatalog.status = 200

\* C14: no two records of the list the list GET returns, or of the list it
\* caches, have the same id.
C14_NoTwoRecordsShareAnId ==
    retCatalog.done =>
       /\ \A i, j \in 1..Len(retCatalog.volcanoes) :
             i # j =>
                retCatalog.volcanoes[i].id # retCatalog.volcanoes[j].id
       /\ \A i, j \in 1..Len(retCatalog.cache.volcanoes) :
             i # j =>
                retCatalog.cache.volcanoes[i].id #
                   retCatalog.cache.volcanoes[j].id

\* The refresh POST runs in this step: the first since the last call entered
\* fetchActiveEruptions, or a later one (no handler moves, no time passes)
Refreshes ==
    /\ invalidated'
    /\ \/ ~invalidated
       \/ pc' = pc /\ clock' = clock

C16_StatusReportsTheSnapshot ==
    /\ [](\A p \in Calls :
             (route[p] = "status" /\ pc[p] = "done") =>
                LET body == statusBody[p]
                    m == eruptions[p]
                IN
                /\ httpStatus[p] = 200
                /\ body.eruptingCount = Len(body.eruptingVolcanoes)
                /\ body.eruptingCount = Cardinality(MapIds(m))
                /\ Len(body.eruptingVolcanoes) = Len(m)
                /\ \A i \in 1..Len(m) :
                      /\ body.eruptingVolcanoes[i].id = m[i].volcanoId
                      /\ body.eruptingVolcanoes[i].name = m[i].volcanoName
                      /\ body.eruptingVolcanoes[i].startDate = m[i].startDate)
    /\ [][\A p \in Calls :
             (/\ Starts(p)
              /\ route'[p] = "status"
              /\ ~eruptionCache.isNull
              /\ clock - eruptionCache.timestamp < ThirtyMinutes) =>
                /\ pc'[p] = "done"
                /\ feedRequests'[p] = 0
                /\ eruptions'[p] = eruptionCache.eruptions]_vars

\* C16 witness: a status GET served by a cache entry 15 minutes old reports
\* two erupting volcanoes, the Merapi and Kilauea entries of the cached map
\* in the order of the map, and has sent no request
C16_Witness ==
    \E p \in Calls :
        /\ route[p] = "status"
        /\ pc[p] = "done"
        /\ feedOutcome[p] = "hit"
        /\ feedRequests[p] = 0
        /\ now[p] - eruptionCache.timestamp = ThirtyMinutes \div 2
        /\ Len(eruptionCache.eruptions) = 2
        /\ statusBody[p].eruptingCount = 2
        /\ statusBody[p].eruptingVolcanoes[1].id = "263250"
        /\ statusBody[p].eruptingVolcanoes[1].name = "Merapi"
        /\ statusBody[p].eruptingVolcanoes[2].id = "300150"
        /\ statusBody[p].eruptingVolcanoes[2].name = "Kilauea"
        /\ statusBody[p].eruptingVolcanoes[2].startDate =
              eruptionCache.eruptions[2].startDate

\* C17: a list GET that waits for the catalog has had its map from
\* fetchActiveEruptions and has sent one catalog request; and in the list it
\* builds from a catalog response that succeeds, a volcano is erupting
\* exactly when its id is in the map fetchActiveEruptions returned to that
\* call.
C17_StatusesFromOwnSnapshot ==
    \A p \in Calls :
        /\ pc[p] = "awaitCatalog" =>
              /\ feedOutcome[p] \in {"hit", "ok", "failed"}
              /\ catalogRequests[p] = 1
        /\ (route[p] = "list" /\ pc[p] = "done" /\ catalogOutcome[p] = "ok") =>
              \A i \in 1..Len(volcanoes[p]) :
                 volcanoes[p][i].status = "erupting" <=>
                    volcanoes[p][i].id \in MapIds(eruptions[p])

\* C18: calls of fetchActiveEruptions that overlap are not serialized.  A
\* call that finds no fresh entry while another call waits for the feed
\* sends a request of its own and leaves the other waiting; the response to
\* one call moves no other call; a response that succeeds stores the map of
\* its call whatever entry is there, even one stored by a call that started
\* later, and a response that fails leaves the entry as it is: the last
\* call to write wins.
C18_OverlappingFetchesLastWriterWins ==
    /\ [][\A p, q \in Calls :
             (/\ p # q
              /\ pc[q] = "awaitFeed"
              /\ StartsFetchActiveEruptions(p)
              /\ \/ eruptionCache.isNull
                 \/ clock - eruptionCache.timestamp >= ThirtyMinutes) =>
                /\ pc'[p] = "awaitFeed"
                /\ feedRequests'[p] = 1
                /\ pc'[q] = "awaitFeed"
                /\ feedRequests'[q] = 1]_vars
    /\ [][\A p, q \in Calls :
             (p # q /\ pc[p] = "awaitFeed" /\ pc'[p] # "awaitFeed") =>
                /\ pc'[q] = pc[q]
                /\ eruptions'[q] = eruptions[q]
                /\ feedOutcome'[q] = feedOutcome[q]
                /\ feedRequests'[q] = feedRequests[q]]_vars
    /\ [][\A p \in Calls :
             (pc[p] = "awaitFeed" /\ pc'[p] # "awaitFeed") =>
                IF feedOutcome'[p] = "ok"
                THEN /\ ~eruptionCache'.isNull
                     /\ eruptionCache'.eruptions = eruptions'[p]
                     /\ eruptionCache'.timestamp = now[p]
                ELSE eruptionCache' = eruptionCache]_vars

\* C18 witness: two calls have each sent a request and received a response
\* that succeeded, with different maps; the entry is the map of the call that
\* started first, which therefore wrote after the other
C18_Witness ==
    \E p, q \in Calls :
        /\ pc[p] = "done" /\ feedOutcome[p] = "ok" /\ feedRequests[p] = 1
        /\ pc[q] = "done" /\ feedOutcome[q] = "ok" /\ feedRequests[q] = 1
        /\ now[q] < now[p]
        /\ eruptions[p] # eruptions[q]
        /\ ~eruptionCache.isNull
        /\ eruptionCache.eruptions = eruptions[q]
        /\ eruptionCache.timestamp = now[q]

\* C19: no failure of the feed, of the catalog or of both makes the list GET
\* answer 500.  A feed failure does not end the handler: it goes on to the
\* catalog request.  Every response of the list GET has status 200; after a
\* catalog failure it carries the five-entry fallback, and after a feed
\* failure alone the list built from the catalog response, not the fallback.
C19_UpstreamFailureNeverAnswers500 ==
    /\ [](\A p \in Calls :
             /\ route[p] = "list" => httpStatus[p] \in {0, 200}
             /\ (route[p] = "list" /\ pc[p] = "done") =>
                   /\ httpStatus[p] = 200
                   /\ catalogOutcome[p] = "failed" =>
                         IsFallbackList(volcanoes[p])
                   /\ (feedOutcome[p] = "failed" /\ catalogOutcome[p] = "ok") =>
                         ~IsFallbackList(volcanoes[p]))
    /\ [][\A p \in Calls :
             (FeedFails(p) /\ route[p] = "list") =>
                /\ pc'[p] = "awaitCatalog"
                /\ httpStatus'[p] = 0]_vars

\* C19 witness: a list GET whose feed request and catalog request both failed
\* has answered 200 with the fallback
C19_Witness ==
    \E p \in Calls :
        /\ route[p] = "list"
        /\ pc[p] = "done"
        /\ feedOutcome[p] = "failed"
        /\ catalogOutcome[p] = "failed"
        /\ httpStatus[p] = 200
        /\ IsFallbackList(volcanoes[p])

\* C20: the cache entry fetchActiveEruptions leaves is never a partly built
\* map and never a merge.  After a successful response it holds exactly the
\* map built from that response: the ids that have a continuing record in
\* it, each with the fields of its first continuing record, so that an id of
\* the previous entry without a continuing record in the response is
\* absent.  After a response that fails, be it in the middle of the loop,
\* the entry is the previous one, unchanged.
C20_CacheReplacedWholesale ==
    retFeed.done =>
       IF FeedSucceeds(argFeed)
       THEN /\ ~retFeed.cache.isNull
            /\ retFeed.cache.eruptions = retFeed.ret
            /\ MapIds(retFeed.cache.eruptions) =
                  {String(n) : n \in {x \in SnapshotNumbers :
                                         ContinuingAt(argFeed, x) # {}}}
            /\ \A n \in SnapshotNumbers :
                  (/\ String(n) \in MapIds(eruptionCache.eruptions)
                   /\ ContinuingAt(argFeed, n) = {}) =>
                     String(n) \notin MapIds(retFeed.cache.eruptions)
            /\ \A i \in 1..Len(retFeed.cache.eruptions) :
                  \E n \in SnapshotNumbers :
                     /\ retFeed.cache.eruptions[i].volcanoId = String(n)
                     /\ IsFirstContinuing(argFeed, n,
                                          retFeed.cache.eruptions[i])
       ELSE retFeed.cache = eruptionCache

\* C20 witness: the previous entry holds volcano 263250; the response has a
\* record of 263250 that is not continuing and a continuing record of
\* 300150; the new entry holds 300150 only
C20_Witness ==
    /\ retFeed.done
    /\ FeedSucceeds(argFeed)
    /\ ~eruptionCache.isNull
    /\ MapIds(eruptionCache.eruptions) = {"263250"}
    /\ \E i \in 1..Len(argFeed.features) :
          /\ argFeed.features[i].VolcanoNumber = 263250
          /\ argFeed.features[i].ContinuingEruption = "False"
    /\ ContinuingAt(argFeed, 263250) = {}
    /\ ContinuingAt(argFeed, 300150) # {}
    /\ MapIds(retFeed.cache.eruptions) = {"300150"}

\* C21: a list GET whose feed request failed and whose catalog request
\* succeeded answers 200 with the list built from the catalog, not the
\* fallback; its statuses come from the map the failed fetchActiveEruptions
\* returned to it, the stale cached one or an empty one: a volcano is
\* erupting exactly when its id is in that map, and none is when it is empty.
C21_FeedFailureKeepsRealCatalog ==
    \A p \in Calls :
        (/\ route[p] = "list"
         /\ pc[p] = "done"
         /\ feedOutcome[p] = "failed"
         /\ catalogOutcome[p] = "ok") =>
           /\ httpStatus[p] = 200
           /\ ~IsFallbackList(volcanoes[p])
           /\ \A i \in 1..Len(volcanoes[p]) :
                 volcanoes[p][i].status = "erupting" <=>
                    volcanoes[p][i].id \in MapIds(eruptions[p])
           /\ eruptions[p] = <<>> =>
                 \A i \in 1..Len(volcanoes[p]) :
                    volcanoes[p][i].status # "erupting"

\* C22: an entry stored in eruptionCache or in cachedData carries the value
\* of the clock at the moment it is stored.
C22_TimestampIsStoreTime ==
    /\ [][(eruptionCache' # eruptionCache /\ ~eruptionCache'.isNull) =>
             eruptionCache'.timestamp = clock]_vars
    /\ [][(cachedData' # cachedData /\ ~cachedData'.isNull) =>
             cachedData'.timestamp = clock]_vars

\* C23: while no call has entered fetchActiveEruptions since the refresh
\* POST, eruptionCache is empty: a fetch that was in flight at the POST does
\* not store its map.
C23_InFlightFetchDoesNotRepopulate ==
    invalidated => eruptionCache.isNull

\* C24: from one write of eruptionCache to the next, with no refresh POST in
\* between, the timestamp of the entry does not decrease.
C24_TimestampNeverDecreases ==
    [][(~eruptionCache.isNull /\ ~eruptionCache'.isNull) =>
          eruptionCache'.timestamp >= eruptionCache.timestamp]_vars

\* C25: the list a build stores in cachedData and returns has its statuses
\* from the map fetchActiveEruptions returned to that same build: at the
\* step that ends a build whose catalog request succeeded, a volcano of the
\* stored list is erupting exactly when its id is in the build's own map.
C25_BuildUsesOwnSnapshot ==
    [][\A p \in Calls :
          (pc[p] = "awaitCatalog" /\ catalogOutcome'[p] = "ok") =>
             /\ volcanoes'[p] = cachedData'.volcanoes
             /\ \A i \in 1..Len(cachedData'.volcanoes) :
                   cachedData'.volcanoes[i].status = "erupting" <=>
                      cachedData'.volcanoes[i].id \in MapIds(eruptions[p])
      ]_vars

\* C26: analytics is initialised only with consent granted: in every tab,
\* while the stored consent is not "granted" and never has been, posthog is
\* not initialised; a step that initialises it ends with the stored consent
\* "granted"; the step of a Decline initialises nothing.
AnalyticsInitialised(t) == initializedRef[t] \/ posthog[t] # "idle"

C26_AnalyticsOnlyWithConsent ==
    /\ []((localStorage # "granted" /\ ~grantedBefore) =>
            \A t \in Tabs : ~AnalyticsInitialised(t))
    /\ [][\A t \in Tabs :
             (~AnalyticsInitialised(t) /\ AnalyticsInitialised(t)') =>
                localStorage' = "granted"]_vars
    /\ [][\A t \in Tabs :
             (lastChoice'[t] = "decline" /\ showBanner[t]) =>
                \A u \in Tabs :
                   AnalyticsInitialised(u)' => AnalyticsInitialised(u)]_vars

\* Decline was pressed in the banner of a tab with consent never granted,
\* and the provider has the key it needs to initialise
C26_Witness ==
    \E t \in Tabs :
        /\ lastChoice[t] = "decline"
        /\ posthogKey
        /\ localStorage = "denied"
        /\ ~grantedBefore
        /\ ~showBanner[t]

\* C30: once useVolcanoes is mounted, isLoading is true exactly while a
\* request to the list endpoint is awaiting its response.
C30_LoadingWhileInFlight ==
    hookMounted => (isLoading <=> inFlight # {})

\* C27: an Escape keydown always calls onClose; a keydown of another key
\* calls a callback only when its target is neither an input nor a textarea
\* and neither the search nor the help modal is open, and then it calls the
\* callback of the key; in every other case it calls none.
ShortcutOf(key) ==
    CASE key = "/" -> "onSearch"
      [] key = "?" -> "onHelp"
      [] key \in {"l", "L"} -> "onMyLocation"
      [] key \in {"+", "="} -> "onZoomIn"
      [] key \in {"-", "_"} -> "onZoomOut"
      [] key \in {"r", "R"} -> "onResetView"
      [] key \in {"n", "N"} -> "onNextErupting"
      [] key \in {"p", "P"} -> "onPrevErupting"
      [] OTHER -> "none"

ShortcutsEnabled ==
    /\ keyEvent.target \notin {"input", "textarea"}
    /\ ~keyEvent.searchOpen
    /\ ~keyEvent.helpOpen

C27_EscapeAlwaysClosesOthersGuarded ==
    keyEvent.key # "none" =>
       /\ keyEvent.key = "Escape" => keyEvent.called = "onClose"
       /\ (keyEvent.key # "Escape" /\ ShortcutsEnabled) =>
             keyEvent.called = ShortcutOf(keyEvent.key)
       /\ (keyEvent.key # "Escape" /\ ~ShortcutsEnabled) =>
             keyEvent.called = "none"

\* Escape was pressed in an input while the search modal was open, and so
\* closed it
C27_Witness ==
    /\ keyEvent.key = "Escape"
    /\ keyEvent.target = "input"
    /\ keyEvent.searchOpen
    /\ keyEvent.called = "onClose"
    /\ ~isSearchOpen

\* C28: with n > 0 erupting volcanoes and the index at i, the n key sets
\* eruptingIndex to (i + 1) mod n and the p key to (i - 1) mod n, and each
\* selects the volcano at the new index; the new index is in 0..n-1 and the
\* opposite key would take it back to i; with n = 0 neither changes the
\* page's state.
KeyCalls(callback) ==
    /\ keyEvent'.called = callback
    /\ KeyDown(keyEvent'.key, keyEvent'.target)

NavigatesTo(j, back) ==
    LET n == Len(eruptingVolcanoes) IN
    IF n = 0
    THEN UNCHANGED <<isSearchOpen, isHelpOpen, isInfoOpen, isLocating,
                     selectedVolcano, eruptingIndex, hookVars>>
    ELSE /\ eruptingIndex' = j % n
         /\ eruptingIndex' \in 0..(n - 1)
         /\ selectedVolcano' = eruptingVolcanoes[eruptingIndex' + 1].id
         /\ (eruptingIndex' + back) % n = eruptingIndex

C28_EruptingNavigationIsCyclic ==
    /\ [][KeyCalls("onNextErupting") =>
             NavigatesTo(eruptingIndex + 1, -1)]_vars
    /\ [][KeyCalls("onPrevErupting") =>
             NavigatesTo(eruptingIndex - 1, 1)]_vars

\* The p key has taken the index from 0 round to the last of three
C28_Witness ==
    /\ Len(eruptingVolcanoes) = 3
    /\ keyEvent.called = "onPrevErupting"
    /\ eruptingIndex = 2
    /\ selectedVolcano = eruptingVolcanoes[3].id

\* C29: selectedIndex of SearchBar is at least 0 and at most
\* max(0, results.length - 1), and results holds at most 8 volcanoes.
C29_SelectedIndexInRange ==
    /\ selectedIndex >= 0
    /\ selectedIndex <= Max(0, Len(results) - 1)
    /\ Len(results) <= 8

====
